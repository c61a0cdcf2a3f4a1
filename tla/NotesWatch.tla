----------------------------- MODULE NotesWatch -----------------------------
(***************************************************************************)
(* What the main loop tells the room about the files of the session folder: *)
(* the trainer's notes, the AI summary, the agenda and the opened files     *)
(* (daemon/__main__.py, daemon/misc/content_files.py).  Every pass probes   *)
(* the folder, compares with the probe before and broadcasts what changed;  *)
(* a text appended to the notes is shown to everybody in a toast.  The      *)
(* trainer's editor and the other writers of the folder do not wait for     *)
(* the probe, which reads the text first and the rest later.                *)
(***************************************************************************)
EXTENDS Integers, FiniteSets, Sequences, SequencesExt, FiniteSetsExt

CONSTANTS
  Sessions, Files,   \* session folders, and the names of their .txt files
  None,
  MaxLines, MaxWrites   \* bounds on the length of the notes, and on the writes

NotesAssumption == {MaxLines, MaxWrites} \subseteq Nat \ {0} /\ None \notin Files

\* A line of the notes: an agent's prompt, text sent by the trainer (both carry the marker of
\* the add-on), and what is typed, as a bullet or as plain text.
Lines == {"prompt", "clip", "bullet", "plain"}
Marked == {"prompt", "clip"}

VARIABLES
  text, at,       \* the .txt files of the sessions, and when they were written (0: absent)
  summary, docx, opened,   \* ai-summary.md's version, the .docx files, the opened files
  now,            \* the writes so far: the clock of the file system
  session,        \* config.session_folder
  half, prev,     \* the probe that is being made, and the probe before
  agendaPath,     \* misc_state.agenda_docx_path
  shown,          \* what the pages of the room show
  toasts, since,  \* history: the toasts of this stay in the room; how long each file
                  \* was when the room was entered
  torn            \* history: the notes were written in the middle of a probe

diskVars == <<text, at, summary, docx, opened, now>>
probeVars == <<session, half, prev, agendaPath, shown, toasts>>
vars == <<diskVars, probeVars, since, torn>>

----------------------------------------------------------------------------
(* Reading the folder                                                       *)

\* find_notes_in_folder: the .txt file that was written last.
NotesFile(s) ==
  IF \A f \in Files : at[s][f] = 0 THEN None
  ELSE CHOOSE f \in Files : \A g \in Files : at[s][f] >= at[s][g]

TextOf(s, f) == IF f = None THEN <<>> ELSE text[s][f]

\* _find_agenda_docx: agenda.docx, else the first one.
FindAgendaDocx(s) ==
  IF docx[s] = {} THEN None ELSE IF "agenda" \in docx[s] THEN "agenda" ELSE "other"

\* parse_prompts: a prompt and the plain lines below it, up to the next bullet.
ParsePrompts(lines) ==
  LET Add(acc, l) ==
        CASE l = "prompt" -> [open |-> TRUE, entries |-> Append(acc.entries, <<l>>)]
          [] l = "plain" /\ acc.open ->
               [acc EXCEPT !.entries[Len(acc.entries)] = Append(@, l)]
          [] OTHER -> [acc EXCEPT !.open = (acc.open /\ l = "plain")]
  IN FoldLeft(Add, [open |-> FALSE, entries |-> <<>>], lines).entries

\* What a page loads from GET state.
PageOf(s) ==
  LET f == NotesFile(s) IN
  [ notes |-> IF f = None THEN 0 ELSE at[s][f],
    prompts |-> Len(ParsePrompts(TextOf(s, f))),
    summary |-> summary[s], agenda |-> FindAgendaDocx(s) # None, files |-> opened[s] ]

\* The first half of _build_notes_summary_probe: which file, and its text.
ProbeText(s) == [folder |-> s, file |-> NotesFile(s), text |-> TextOf(s, NotesFile(s))]

\* The second half, which looks at the same file again.
ProbeRest(p) ==
  [ folder |-> p.folder, file |-> p.file, text |-> p.text,
    mtime |-> IF p.file = None THEN 0 ELSE at[p.folder][p.file],
    lines |-> Len(TextOf(p.folder, p.file)),
    prompts |-> Len(ParsePrompts(p.text)),
    summary |-> summary[p.folder], agenda |-> FindAgendaDocx(p.folder),
    files |-> opened[p.folder] ]

----------------------------------------------------------------------------
(* Telling the room                                                         *)

\* _probe_change_parts.
ChangeParts(old, new) ==
  {part \in {"session", "notes", "summary", "agenda", "files"} :
     CASE part = "session" -> old.folder # new.folder
       [] part = "notes" -> old.file # new.file \/ old.mtime # new.mtime \/ old.lines # new.lines
       [] part = "summary" -> old.summary # new.summary
       [] part = "agenda" -> old.agenda # new.agenda
       [] part = "files" -> old.files # new.files}

\* Rejected variant of Told: a message is sent only for a file that is there.
ToldIfThere(page, new, parts) ==
  LET Tells(part) == part \in parts \/ "session" \in parts IN
  [ notes |-> IF Tells("notes") /\ new.mtime # 0 THEN new.mtime ELSE page.notes,
    prompts |-> IF Tells("notes") THEN new.prompts ELSE page.prompts,
    summary |-> IF Tells("summary") THEN new.summary ELSE page.summary,
    agenda |-> IF Tells("agenda") /\ new.agenda # None THEN TRUE ELSE page.agenda,
    files |-> IF Tells("files") THEN new.files ELSE page.files ]

\* _broadcast_notes_summary_counts: the pages show what is in the messages.
Told(page, new, parts) ==
  LET Tells(part) == part \in parts \/ "session" \in parts IN
  [ notes |-> IF Tells("notes") THEN new.mtime ELSE page.notes,
    prompts |-> IF Tells("notes") THEN new.prompts ELSE page.prompts,
    summary |-> IF Tells("summary") THEN new.summary ELSE page.summary,
    agenda |-> IF Tells("agenda") THEN new.agenda # None ELSE page.agenda,
    files |-> IF Tells("files") THEN new.files ELSE page.files ]

\* Rejected variant of Snippet: any append toasts, whichever file it is.
SnippetOfAny(old, new, parts) ==
  LET appended == SubSeq(new.text, Len(old.text) + 1, Len(new.text)) IN
  IF /\ "notes" \in parts
     /\ old.text # <<>> /\ IsStrictPrefix(old.text, new.text) /\ appended[1] \in Marked
  THEN {[session |-> new.folder, file |-> new.file, from |-> Len(old.text), lines |-> appended]}
  ELSE {}

\* _notes_append_snippet: the notes of the same file grew by an append, and it starts with a
\* marker.
Snippet(old, new, parts) ==
  LET appended == SubSeq(new.text, Len(old.text) + 1, Len(new.text)) IN
  IF /\ "notes" \in parts /\ old.file = new.file /\ old.folder = new.folder
     /\ old.text # <<>> /\ IsStrictPrefix(old.text, new.text) /\ appended[1] \in Marked
  THEN {[session |-> new.folder, file |-> new.file, from |-> Len(old.text), lines |-> appended]}
  ELSE {}

\* A pass of the main loop reads the notes ...
StartProbe ==
  /\ half = None /\ half' = <<ProbeText(session)>>
  /\ UNCHANGED <<diskVars, session, prev, agendaPath, shown, toasts, since, torn>>

\* ... and the rest, and tells what has changed.
EndProbe ==
  /\ half # None /\ half' = None
  /\ LET new == ProbeRest(half[1])  parts == ChangeParts(prev, new) IN
     /\ prev' = new
     /\ IF prev = new THEN UNCHANGED <<agendaPath, shown, toasts>>
        ELSE /\ agendaPath' = new.agenda
             /\ shown' = Told(shown, new, parts)
             /\ toasts' = toasts \cup Snippet(prev, new, parts)
  /\ UNCHANGED <<diskVars, session, since, torn>>

----------------------------------------------------------------------------
(* The folder changes                                                       *)

Writes ==
  /\ now < MaxWrites /\ now' = now + 1
  /\ UNCHANGED probeVars

\* The file is written; a probe that has read the text does not see it whole.
WriteNotes(s, f, lines) ==
  /\ Writes
  /\ text' = [text EXCEPT ![s][f] = lines] /\ at' = [at EXCEPT ![s][f] = now']
  /\ since' = [since EXCEPT ![s][f] = IF Len(lines) < @ THEN Len(lines) ELSE @]
  /\ torn' = (torn \/ half # None)
  /\ UNCHANGED <<summary, docx, opened>>

\* A line is appended, by the add-on or by hand.
AppendNotes(s, f, line) ==
  /\ Len(text[s][f]) < MaxLines /\ WriteNotes(s, f, Append(text[s][f], line))

\* An undo takes the last line away.
UndoNotes(s, f) == text[s][f] # <<>> /\ WriteNotes(s, f, Front(text[s][f]))

\* The notes are deleted.
DeleteNotes(s, f) ==
  /\ at[s][f] # 0 /\ Writes
  /\ text' = [text EXCEPT ![s][f] = <<>>] /\ at' = [at EXCEPT ![s][f] = 0]
  /\ since' = [since EXCEPT ![s][f] = 0] /\ torn' = (torn \/ half # None)
  /\ UNCHANGED <<summary, docx, opened>>

\* The summary is written anew or deleted, an agenda is dropped or deleted, a file opened.
WriteOthers(s) ==
  /\ Writes /\ UNCHANGED <<text, at, since, torn>>
  /\ \/ summary' \in {[summary EXCEPT ![s] = v] : v \in {0, now'}} /\ UNCHANGED <<docx, opened>>
     \/ /\ \E n \in {"agenda", "other"} :
             docx' = [docx EXCEPT ![s] = IF n \in @ THEN @ \ {n} ELSE @ \cup {n}]
        /\ UNCHANGED <<summary, opened>>
     \/ opened' = [opened EXCEPT ![s] = @ + 1] /\ UNCHANGED <<summary, docx>>

\* The main loop changes the session, and probes in the same pass; the page of the room is
\* loaded when it is entered.
Enter(s) ==
  /\ half = None /\ prev.folder = session /\ s # session /\ session' = s
  /\ shown' = PageOf(s) /\ since' = [since EXCEPT ![s] = [f \in Files |-> Len(text[s][f])]]
  /\ toasts' = {}
  /\ UNCHANGED <<diskVars, half, prev, agendaPath, torn>>

Init ==
  /\ text \in [Sessions -> [Files -> {<<>>, <<"clip">>}]]
  /\ at = [s \in Sessions |-> [f \in Files |-> IF text[s][f] = <<>> THEN 0 ELSE 1]]
  /\ summary = [s \in Sessions |-> 0] /\ docx = [s \in Sessions |-> {}]
  /\ opened = [s \in Sessions |-> 0] /\ now = 1
  /\ session \in Sessions /\ half = None /\ prev = ProbeRest(ProbeText(session))
  /\ agendaPath = None /\ shown = PageOf(session) /\ toasts = {}
  /\ since = [s \in Sessions |-> [f \in Files |-> Len(text[s][f])]] /\ torn = FALSE

Writing ==
  \E s \in Sessions :
    \/ \E f \in Files : \/ \E l \in Lines : AppendNotes(s, f, l)
                        \/ UndoNotes(s, f) \/ DeleteNotes(s, f)
    \/ WriteOthers(s)

Next == Writing \/ StartProbe \/ EndProbe \/ \E s \in Sessions : Enter(s)

Spec == Init /\ [][Next]_vars

----------------------------------------------------------------------------
(* Properties                                                               *)

\* The variables have the types the code gives them.
TypeOK ==
  /\ session \in Sessions /\ now \in 1 .. MaxWrites
  /\ \A s \in Sessions : /\ docx[s] \subseteq {"agenda", "other"}
                         /\ summary[s] \in 0 .. MaxWrites /\ opened[s] \in 0 .. MaxWrites
                         /\ \A f \in Files : /\ text[s][f] \in Seq(Lines)
                                             /\ at[s][f] \in 0 .. MaxWrites
  /\ agendaPath \in {"agenda", "other", None}

\* __main__.py:497-501: once a probe has seen the folder as it is, the pages show it, also
\* what has disappeared, and the agenda served is the one that is there.
PagesShowTheFolder ==
  half = None /\ ~torn /\ prev = ProbeRest(ProbeText(session)) =>
    shown = PageOf(session) /\ agendaPath = FindAgendaDocx(session)

\* :591-595: a toast shows what was appended in its room, never what was in the notes when the
\* room was entered.
ToastsAreNews == \A t \in toasts : t.from >= since[t.session][t.file]

----------------------------------------------------------------------------
(* Promises the code does not keep; TLC shows how                           *)

\* :595 "participants only ever see text the trainer deliberately shared".
OnlySharedIsSeen == \A t \in toasts : ToSet(t.lines) \subseteq Marked

\* :497-501 when the notes are written in the middle of a probe, too.
PagesAlwaysShowTheFolder ==
  half = None /\ prev = ProbeRest(ProbeText(session)) => shown = PageOf(session)

----------------------------------------------------------------------------
(* The inductive invariant behind the theorems of Records                   *)

NotesTypeOK ==
  /\ session \in Sessions /\ now \in 1 .. MaxWrites /\ torn \in BOOLEAN
  /\ text \in [Sessions -> [Files -> Seq(Lines)]] /\ at \in [Sessions -> [Files -> 0 .. now]]
  /\ since \in [Sessions -> [Files -> Nat]]
  /\ summary \in [Sessions -> 0 .. now] /\ opened \in [Sessions -> 0 .. now]
  /\ docx \in [Sessions -> SUBSET {"agenda", "other"}]
  /\ agendaPath \in {"agenda", "other", None}

\* A probe is of a session, of one of its files with its text, or of none.
IsProbe(p) ==
  /\ p.folder \in Sessions /\ p.file \in Files \cup {None} /\ p.text \in Seq(Lines)
  /\ p.file = None => p.text = <<>>

ProbesAreOfFolders ==
  /\ half # None => IsProbe(half[1]) /\ half[1].folder = session
  /\ IsProbe(prev) /\ prev.prompts = Len(ParsePrompts(prev.text))
  /\ prev.file = None => prev.mtime = 0

\* What was read since the room was entered is as long as what was there then, but for what
\* was taken away meanwhile.
SinceTheEntry ==
  /\ \A s \in Sessions, f \in Files : since[s][f] <= Len(text[s][f])
  /\ half # None /\ half[1].file # None => since[session][half[1].file] <= Len(half[1].text)
  /\ prev.folder = session /\ prev.file # None => since[session][prev.file] <= Len(prev.text)
  /\ \A t \in toasts : t.session \in Sessions /\ t.file \in Files /\ t.from \in Nat
  /\ ToastsAreNews

\* The page as a probe tells it.
PageFrom(p) ==
  [ notes |-> p.mtime, prompts |-> p.prompts, summary |-> p.summary,
    agenda |-> p.agenda # None, files |-> p.files ]

\* As long as no notes are written in the middle of a probe: what was read is what is there,
\* a time of writing tells the text of a file, and the pages show the last probe.
PagesAreOfProbes ==
  ~torn =>
    /\ half # None => half[1] = ProbeText(session)
    /\ prev.file # None =>
         /\ prev.mtime \in 1 .. now
         /\ at[prev.folder][prev.file] = prev.mtime => text[prev.folder][prev.file] = prev.text
    /\ prev.folder = session => shown = PageFrom(prev) /\ agendaPath = prev.agenda

NotesInv == NotesTypeOK /\ ProbesAreOfFolders /\ SinceTheEntry /\ PagesAreOfProbes
=============================================================================
