------------------------------ MODULE AiShare -------------------------------
(***************************************************************************)
(* The AI-share survey of the daemon (daemon/aishare/state.py and           *)
(* daemon/aishare/router.py): one question of each interesting kind, a      *)
(* multi with an "Other" option, favourites and typed values, and a ranking *)
(* that participants grow, vote on and the host moderates.  Choices and     *)
(* sliders are one integer per participant, the last one wins, and are left *)
(* out; so are `revealed` and the results.                                    *)
(*                                                                         *)
(* Every handler makes its changes before it awaits, so it is one action.   *)
(* A tap on an item is two: the page sends the id it shows, later the       *)
(* daemon reads it.                                                         *)
(***************************************************************************)
EXTENDS Activity

CONSTANTS
  Pids,       \* participants, by uuid
  Width,      \* options of the multi; the last one is "Other"
  Values,     \* values one may type under "Other"
  Texts,      \* texts of ranking items, case aside
  Presets,    \* the texts a ranking starts with
  Host,       \* "by" of a preset
  MaxOwn,     \* MAX_ITEMS_PER_PARTICIPANT
  MaxItems,   \* MAX_ITEMS
  MaxId       \* bound on the numbers items get

AiShareAssumption ==
  /\ Width \in Nat \ {0} /\ MaxOwn \in Nat /\ MaxItems \in Nat /\ MaxId \in Nat
  /\ Presets \subseteq Texts /\ IsFiniteSet(Presets) /\ Host \notin Pids

VARIABLES
  open,       \* AiShareState.active
  ticked,     \* answers of the multi, the set of its bits; {} = no answer
  hearts,     \* the favourites among them
  typed,      \* others: the values under "Other"
  items,      \* the ranking: [id, text, by]
  fires,      \* votes: <<participant, item id>>
  sent        \* taps under way: [pid, id, text |-> what the page showed]

surveyVars == <<open, ticked, hearts, typed, items, fires, sent>>
vars == <<surveyVars, activityVars>>

Options == 1 .. Width
OtherOption == Width
None == [p \in Pids |-> {}]
Put(f, p, v) == [f EXCEPT ![p] = v]

\* Rejected variant of InsertBit: the bits stay where they are.
InsertNothing(S, at) == S

\* insert_bit: a new option before "Other", for answers given before it was there.
InsertBit(S, at) == {i \in S : i < at} \cup {i + 1 : i \in {j \in S : j >= at}}

ItemOf(i) == CHOOSE it \in items : it.id = i
ItemIds == {it.id : it \in items}
NextId == IF items = {} THEN 0 ELSE 1 + CHOOSE m \in ItemIds : \A i \in ItemIds : i <= m

\* _seed_items: each option of the ranking becomes an item, numbered from 0.
Seeds ==
  LET number == CHOOSE f \in [Presets -> 0 .. Cardinality(Presets) - 1] :
                  \A s, t \in Presets : s # t => f[s] # f[t]
  IN {[id |-> number[t], text |-> t, by |-> Host] : t \in Presets}

----------------------------------------------------------------------------
(* Host                                                                     *)

Emptied == ticked' = None /\ hearts' = None /\ typed' = None /\ fires' = {}

\* POST aishare/start: a fresh round.
StartSurvey ==
  /\ open' = TRUE /\ Emptied /\ items' = Seeds
  /\ Route("aishare") /\ UNCHANGED sent

\* POST aishare/clear.
ClearSurvey ==
  /\ open' = FALSE /\ Emptied /\ items' = {} /\ UNCHANGED sent
  /\ IF activity = "aishare" THEN Route("none") ELSE UNCHANGED activityVars

\* Rejected variant of DeleteItem: its votes stay behind.
DeleteItemOnly(i) ==
  /\ open /\ i \in ItemIds
  /\ items' = items \ {ItemOf(i)}
  /\ UNCHANGED <<open, ticked, hearts, typed, fires, sent, activityVars>>

\* DELETE aishare/items: the item and every vote on it are gone.
DeleteItem(i) ==
  /\ open /\ i \in ItemIds
  /\ items' = items \ {ItemOf(i)} /\ fires' = {f \in fires : f[2] # i}
  /\ UNCHANGED <<open, ticked, hearts, typed, sent, activityVars>>

----------------------------------------------------------------------------
(* Participants                                                             *)

\* POST aishare/value for the multi: options O, typed values V (Keep = not sent) and
\* favourites H.  Typing ticks "Other"; nothing ticked withdraws the answer; values are
\* kept only beside "Other", favourites only among the ticked.
Keep == Values \cup {{}}        \* no set of values: the request has none
SetValue(p, O, V, H) ==
  LET sentValues == V # Keep
      all == IF sentValues /\ V # {} THEN O \cup {OtherOption} ELSE O
  IN /\ open
     /\ ticked' = Put(ticked, p, all)
     /\ hearts' = Put(hearts, p, H \cap all)
     /\ typed' = Put(typed, p, IF OtherOption \notin all THEN {}
                               ELSE IF sentValues THEN V ELSE typed[p])
     /\ UNCHANGED <<open, items, fires, sent, activityVars>>

\* POST aishare/item: a text that is there already just gets the participant's vote.
AddItem(p, t) ==
  /\ open
  /\ \/ \E it \in items :
          it.text = t /\ fires' = fires \cup {<<p, it.id>>} /\ UNCHANGED items
     \/ /\ \A it \in items : it.text # t
        /\ NextId <= MaxId
        /\ Cardinality(items) < MaxItems
        /\ Cardinality({it \in items : it.by = p}) < MaxOwn
        /\ items' = items \cup {[id |-> NextId, text |-> t, by |-> p]}
        /\ fires' = fires \cup {<<p, NextId>>}
  /\ UNCHANGED <<open, ticked, hearts, typed, sent, activityVars>>

\* The page of p shows the items and sends a tap on one of them.
Tap(p, it) ==
  /\ \A s \in sent : s.pid # p        \* bound: one tap under way per page
  /\ sent' = sent \cup {[pid |-> p, id |-> it.id, text |-> it.text]}
  /\ UNCHANGED <<open, ticked, hearts, typed, items, fires, activityVars>>

\* POST aishare/vote: 1 or 0 for an item that is there; else 409.
Vote(s, on) ==
  /\ sent' = sent \ {s}
  /\ LET f == <<s.pid, s.id>>
     IN fires' = IF ~open \/ s.id \notin ItemIds THEN fires
                 ELSE IF on THEN fires \cup {f} ELSE fires \ {f}
  /\ UNCHANGED <<open, ticked, hearts, typed, items, activityVars>>

\* The daemon restarts: what the file has is what there was, taps under way are lost.
Restart ==
  /\ sent' = {} /\ ActivityRestored
  /\ UNCHANGED <<open, ticked, hearts, typed, items, fires>>

----------------------------------------------------------------------------

\* A first start, or a restore of a file written before the last but one option was
\* inserted: its answers name one option less.
Old == 1 .. Width - 1
Init ==
  /\ open \in BOOLEAN /\ fires = {} /\ sent = {}
  /\ items = IF open THEN Seeds ELSE {}
  /\ \E before \in IF open THEN [Pids -> SUBSET Old] ELSE {None},
        liked \in IF open THEN [Pids -> SUBSET Old] ELSE {None} :
       /\ \A p \in Pids : liked[p] \subseteq before[p]
       /\ ticked = [p \in Pids |-> InsertBit(before[p], Width - 1)]
       /\ hearts = [p \in Pids |-> InsertBit(liked[p], Width - 1) \cap ticked[p]]
       /\ typed \in [Pids -> SUBSET Values]
       /\ \A p \in Pids : Width - 1 \notin before[p] => typed[p] = {}
  /\ activity = "none" /\ announced = "none"

Rounds == StartSurvey \/ ClearSurvey \/ Restart

Answering ==
  \E p \in Pids, O, H \in SUBSET Options, V \in (SUBSET Values) \cup {Keep} :
     SetValue(p, O, V, H)

Ranking ==
  \/ \E i \in ItemIds : DeleteItem(i)
  \/ \E p \in Pids, t \in Texts : AddItem(p, t)
  \/ \E p \in Pids, it \in items : Tap(p, it)
  \/ \E s \in sent, on \in BOOLEAN : Vote(s, on)

Next == Rounds \/ Answering \/ Ranking

Spec == Init /\ [][Next]_vars

----------------------------------------------------------------------------
(* Properties                                                               *)

\* The variables have the types the code gives them.
TypeOK ==
  /\ open \in BOOLEAN
  /\ ticked \in [Pids -> SUBSET Options] /\ hearts \in [Pids -> SUBSET Options]
  /\ typed \in [Pids -> SUBSET Values]
  /\ items \subseteq [id : Nat, text : Texts, by : Pids \cup {Host}]
  /\ fires \subseteq Pids \X Nat
  /\ sent \subseteq [pid : Pids, id : Nat, text : Texts]
  /\ ActivityTypeOK

Hearts == \A p \in Pids : hearts[p] \subseteq ticked[p]
Typed == \A p \in Pids : typed[p] # {} => OtherOption \in ticked[p]
Unique == \A it, jt \in items : it.id = jt.id \/ it.text = jt.text => it = jt
Votes == \A f \in fires : f[2] \in ItemIds

\* Whatever is answered, withdrawn, moderated, restored from an older file or answered
\* late: favourites are among the ticked options, typed values stand under "Other", no
\* two items have one number or one text, and every vote is for an item that is there, so
\* that an item added later cannot inherit it.
AnswersAgree == Hearts /\ Typed /\ Unique /\ Votes

----------------------------------------------------------------------------
(* A promise the code does not keep; TLC shows how                          *)

\* aishare/state.py:209, "False when there is no such item": a vote is for the item whose
\* text the page showed.  The number of a deleted last item goes to the next one.
TapsHitWhatWasShown ==
  [][\A s \in sent, on \in BOOLEAN :
       Vote(s, on) /\ fires' # fires =>
         \E it \in items : it.id = s.id /\ it.text = s.text]_vars

----------------------------------------------------------------------------
(* The inductive invariant behind the theorems of ActivitiesProofs          *)

AnswersTypeOK ==
  /\ open \in BOOLEAN
  /\ ticked \in [Pids -> SUBSET Options] /\ hearts \in [Pids -> SUBSET Options]
  /\ typed \in [Pids -> SUBSET Values]

\* The numbers of items stay below a bound, so there is always a next one.
Top == MaxId + Cardinality(Presets)
RankingTypeOK ==
  /\ items \subseteq [id : 0 .. Top, text : Texts, by : Pids \cup {Host}]
  /\ fires \subseteq Pids \X Nat
  /\ sent \subseteq [pid : Pids, id : Nat, text : Texts]

SurveyInv == AnswersTypeOK /\ RankingTypeOK /\ AnswersAgree
=============================================================================
