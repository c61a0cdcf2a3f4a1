------------------------------ MODULE Identity ------------------------------
(***************************************************************************)
(* Who is in the room: registration, names, the trainer's claim, the purge, *)
(* and how the phones and the attendance sheet learn of it                  *)
(* (daemon/participant/router.py, state.py, names.py, sanitize.py,          *)
(* daemon/host_machine/router.py, daemon/attendees_md.py).  A handler       *)
(* changes the roster in one step and publishes it in a later one: pushing  *)
(* the roster to the host, or looking a place up, is awaited in between.    *)
(* Names are members of small sets, one per spelling that counts as equal.  *)
(***************************************************************************)
EXTENDS Integers, FiniteSets, SequencesExt

CONSTANTS
  Pids,        \* participants
  Typed,       \* names people type
  Pool,        \* fictional names; a subset may be typed as well
  Guest,       \* a name made up when the pool is exhausted
  Trainer,     \* RESERVED_TRAINER_NAME
  None,
  MaxCalls     \* bound on handlers that wait to publish

IdentityAssumption ==
  /\ {Guest, Trainer, None} \cap (Typed \cup Pool) = {}
  /\ Guest # Trainer /\ None \notin {Guest, Trainer} /\ IsFiniteSet(Pids)
  /\ None \notin [Typed \cup Pool \cup {Guest, Trainer} -> Nat]
  /\ MaxCalls \in Nat \ {0}

Names == Typed \cup Pool \cup {Guest, Trainer}

VARIABLES
  mode,        \* "workshop" or "talk"
  names,       \* participant_names, None = not registered
  order,       \* the order of that dict: <<p, q>> when p registered before q
  anon,        \* anonymous_pids
  trainers,    \* trainer_pids
  gate,        \* last_broadcast_names as a bag, None = publish whatever comes
  awaiting,    \* handlers that changed the roster and have not published it
  seen,        \* the last names the phones were sent, as a bag
  sheet,       \* attendees.md: one row per registered participant
  file,        \* the roster part of session-state.json
  claimed,     \* history: who claimed the trainer's name in this session
  unsaid       \* history: the names changed where no handler publishes them

rosterVars == <<names, order, anon, trainers>>
viewVars == <<gate, seen, sheet>>
vars == <<mode, rosterVars, viewVars, awaiting, file, claimed, unsaid>>

Registered == {p \in Pids : names[p] # None}

Nobody == [p \in Pids |-> None]

\* _participant_display_names: everybody's name, of the trainers only the first one's.
Listed ==
  {p \in Registered : p \in trainers => \A q \in trainers : <<q, p>> \notin order}

Display == [n \in Names |-> Cardinality({p \in Listed : names[p] = n})]

\* regenerate_attendees: the whole sheet anew, a row with a tag for the anonymous.
Sheet(who, tagged) == [p \in Pids |-> <<who[p], p \in tagged>>]

\* A handler that has changed the roster goes on to publish it.
ThenPublish == awaiting < MaxCalls /\ awaiting' = awaiting + 1

\* POST participant/register of somebody new.  An explicit name is taken as it is, and a
\* conflict is but a flag in the answer; without one a fictional name nobody has is given.
NewName(p, n, tagged) ==
  /\ names' = [names EXCEPT ![p] = n]
  /\ order' = IF names[p] = None THEN order \cup {<<q, p>> : q \in Registered} ELSE order
  /\ anon' = IF tagged THEN anon \cup {p} ELSE anon \ {p}
  /\ ThenPublish
  /\ UNCHANGED <<mode, trainers, viewVars, file, claimed, unsaid>>

RegisterTyped(p, n) ==
  /\ names[p] = None /\ p \notin trainers
  /\ NewName(p, n, FALSE)

\* ... without a name; random.choice among the free ones.
FreeNames == {n \in Pool : \A q \in Registered : names[q] # n}

RegisterBlank(p, n) ==
  /\ names[p] = None /\ p \notin trainers
  /\ n \in (IF FreeNames = {} THEN {Guest} ELSE FreeNames)
  /\ NewName(p, n, TRUE)

\* ... of a browser that claimed the trainer's name before it registered.
RegisterTrainer(p) == names[p] = None /\ p \in trainers /\ NewName(p, Trainer, FALSE)

\* ... of somebody known: the name it has.  A claim that overtook the registration is honoured
\* here, and published by nobody.
RegisterAgain(p) ==
  /\ names[p] \notin {None, Trainer} /\ p \in trainers
  /\ names' = [names EXCEPT ![p] = Trainer] /\ anon' = anon \ {p}
  /\ unsaid' = TRUE
  /\ UNCHANGED <<mode, order, trainers, viewVars, awaiting, file, claimed>>

\* Rejected variant of Rename: the reserved name is a string like any other.
RenameFreely(p, n) == names[p] # None /\ NewName(p, n, FALSE)

\* PUT participant/name: 403 for the reserved name, 400 before the registration.
Rename(p, n) ==
  /\ names[p] # None /\ (n = Trainer => p \in trainers)
  /\ NewName(p, n, FALSE)

\* POST host-machine/claim-trainer, on the trainer's machine.  The flag is persisted after
\* the push: Persist.
ClaimTrainer(p) ==
  /\ trainers' = trainers \cup {p} /\ claimed' = claimed \cup {p}
  /\ IF names[p] # None
     THEN /\ names' = [names EXCEPT ![p] = Trainer] /\ anon' = anon \ {p}
          /\ ThenPublish
     ELSE UNCHANGED <<names, anon, awaiting>>
  /\ UNCHANGED <<mode, order, viewVars, file, unsaid>>

\* POST participant/activity, resolve-locations and the like: nothing of the names changes,
\* and they are published.
Heartbeat == ThenPublish /\ UNCHANGED <<mode, rosterVars, viewVars, file, claimed, unsaid>>

\* _publish_names_if_changed: one gate for the broadcast, which a talk leaves out, and for
\* the sheet.
Publish ==
  /\ awaiting > 0 /\ awaiting' = awaiting - 1 /\ unsaid' = FALSE
  /\ IF Display = gate
     THEN UNCHANGED viewVars
     ELSE /\ gate' = Display
          /\ seen' = IF mode = "talk" THEN seen ELSE Display
          /\ sheet' = Sheet(names, anon)
  /\ UNCHANGED <<mode, rosterVars, file, claimed>>

\* DELETE host/participants/<pid>, of somebody inactive or forced: every trace of the
\* participant, and then the push.
Purge(p) ==
  /\ names[p] # None
  /\ names' = [names EXCEPT ![p] = None] /\ order' = {o \in order : p \notin {o[1], o[2]}}
  /\ anon' = anon \ {p} /\ trainers' = trainers \ {p}
  /\ gate' = None
  /\ ThenPublish
  /\ UNCHANGED <<mode, seen, sheet, file, claimed, unsaid>>

\* Rejected variant of EnterSession: the gate of the session before stays.
EnterSessionKeepsGate(m) ==
  /\ mode' = m /\ names' = Nobody /\ order' = {} /\ anon' = {} /\ trainers' = {}
  /\ sheet' = Sheet(Nobody, {})
  /\ file' = [names |-> Nobody, anon |-> {}, trainers |-> {}]
  /\ claimed' = {} /\ unsaid' = TRUE
  /\ UNCHANGED <<gate, seen, awaiting>>

\* A fresh session, entered by the main loop: ParticipantState.reset and a new sheet.
EnterSession(m) ==
  /\ mode' = m /\ names' = Nobody /\ order' = {} /\ anon' = {} /\ trainers' = {}
  /\ gate' = None /\ sheet' = Sheet(Nobody, {})
  /\ file' = [names |-> Nobody, anon |-> {}, trainers |-> {}]
  /\ claimed' = {} /\ unsaid' = TRUE
  /\ UNCHANGED <<seen, awaiting>>

\* The main loop's flush: the roster, not the flags.
Flush ==
  /\ file' = [file EXCEPT !.names = names]
  /\ UNCHANGED <<mode, rosterVars, viewVars, awaiting, claimed, unsaid>>

\* ParticipantState.persist, by the handlers of the claim, the emoji, the bell and the fx.
Persist ==
  /\ file' = [names |-> names, anon |-> anon, trainers |-> trainers]
  /\ UNCHANGED <<mode, rosterVars, viewVars, awaiting, claimed, unsaid>>

Before(s) ==
  {<<s[d[1]], s[d[2]]>> : d \in {e \in (DOMAIN s) \X (DOMAIN s) : e[1] < e[2]}}

\* The daemon stops and starts: what the file holds comes back (sync_from_restore), in the
\* order a set of ids happened to be written in.
Restart ==
  /\ \E s \in SetToSeqs({p \in Pids : file.names[p] # None}) : order' = Before(s)
  /\ names' = file.names /\ anon' = file.anon /\ trainers' = file.trainers
  /\ gate' = None /\ awaiting' = 0 /\ unsaid' = TRUE
  /\ UNCHANGED <<mode, seen, sheet, file, claimed>>

Init ==
  /\ mode \in {"workshop", "talk"}
  /\ names = Nobody /\ order = {} /\ anon = {} /\ trainers = {}
  /\ gate = None /\ awaiting = 0 /\ unsaid = TRUE
  /\ seen = [n \in Names |-> 0] /\ sheet = Sheet(Nobody, {})
  /\ file = [names |-> Nobody, anon |-> {}, trainers |-> {}]
  /\ claimed = {}

\* What people and the host do, and what is kept of it.
Acting ==
  \/ \E p \in Pids :
       \/ \E n \in Typed : RegisterTyped(p, n)
       \/ \E n \in Pool \cup {Guest} : RegisterBlank(p, n)
       \/ \E n \in Typed \cup {Trainer} : Rename(p, n)
       \/ RegisterTrainer(p) \/ RegisterAgain(p) \/ ClaimTrainer(p) \/ Purge(p)
  \/ \E m \in {"workshop", "talk"} : EnterSession(m)
  \/ Heartbeat \/ Publish

Keeping == Flush \/ Persist \/ Restart

Next == Acting \/ Keeping

Spec == Init /\ [][Next]_vars

----------------------------------------------------------------------------
(* Properties                                                               *)

RosterTypeOK ==
  /\ mode \in {"workshop", "talk"}
  /\ names \in [Pids -> Names \cup {None}]
  /\ anon \subseteq Pids /\ trainers \subseteq Pids /\ claimed \subseteq Pids
  /\ awaiting \in 0 .. MaxCalls /\ unsaid \in BOOLEAN
  /\ gate \in [Names -> Nat] \cup {None} /\ seen \in [Names -> Nat]
  /\ sheet \in [Pids -> (Names \cup {None}) \X BOOLEAN]
  /\ file \in [names : [Pids -> Names \cup {None}], anon : SUBSET Pids,
               trainers : SUBSET Pids]

\* The order is one of all who are registered, and of nobody else.
OrderIsOfThem ==
  /\ order \subseteq Registered \X Registered
  /\ \A p, q \in Registered : <<p, q>> \in order <=> p # q /\ <<q, p>> \notin order
  /\ \A p, q, r \in Registered : {<<p, q>>, <<q, r>>} \subseteq order => <<p, r>> \in order

\* The variables have the types the code gives them.
TypeOK == RosterTypeOK /\ OrderIsOfThem

\* The trainer's name is a privilege: whoever carries it has claimed it on the trainer's
\* machine in this session, through renames, late registrations, purges and restarts.
NobodyElseIsTrainer == \A p \in Pids : names[p] = Trainer => p \in claimed

\* Once every handler has published, the phones of a workshop have the names, and whoever
\* is no trainer is on the sheet: the gate never swallows a change, also when names come
\* back, people are purged and talks and workshops alternate.
PhonesKnowTheNames ==
  awaiting = 0 /\ ~unsaid =>
    /\ mode = "workshop" => seen = Display
    /\ \A p \in Registered \ trainers : \E q \in Pids : sheet[q][1] = names[p]

----------------------------------------------------------------------------
(* Promises the code does not keep; TLC shows how                           *)

\* state.py:43-46: a restart does not demote the trainer.
TrainerStaysTrainer == \A p \in Pids : names[p] = Trainer => p \in trainers

\* attendees_md.py:111-116: a row is tagged when its name was given and not typed.
SheetTagsRight ==
  awaiting = 0 /\ ~unsaid => \A p \in Registered : sheet[p][2] = (p \in anon)

\* router.py:572-573: the sheet follows from the names the gate compares.  It does not when
\* two browsers claimed the trainer's name and one of them goes on under another.
SheetIsComplete ==
  awaiting = 0 /\ ~unsaid =>
    {sheet[p][1] : p \in Pids} \ {None} = {names[p] : p \in Registered}

\* state.py:36-42: who got a fictional name is still known as anonymous after a restart.
GuestStaysTagged == \A p \in Registered : names[p] = Guest => p \in anon

----------------------------------------------------------------------------
(* The inductive invariant behind the theorems of RecordsProofs            *)

\* Who is taken for the trainer, or was when the file was written, has claimed it.
ClaimsAreMade ==
  /\ trainers \cup file.trainers \subseteq claimed
  /\ \A p \in Pids : names[p] = Trainer \/ file.names[p] = Trainer => p \in claimed

\* What passed the gate last is what the phones of a workshop were sent, and is on the sheet.
GateTells ==
  gate # None =>
    /\ mode = "workshop" => seen = gate
    /\ \A n \in Names : gate[n] > 0 => \E q \in Pids : sheet[q][1] = n

\* A change that has not passed it has a handler that will bring it there.
NothingIsForgotten == awaiting = 0 /\ ~unsaid => gate = Display

IdentityInv == TypeOK /\ ClaimsAreMade /\ GateTells /\ NothingIsForgotten
=============================================================================
