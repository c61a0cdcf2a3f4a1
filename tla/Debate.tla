------------------------------- MODULE Debate -------------------------------
(***************************************************************************)
(* The debate of the daemon (daemon/debate/state.py, daemon/debate/router.py, *)
(* daemon/debate/ai_cleanup.py): sides picked or assigned, arguments and    *)
(* upvotes, a clean-up by a language model that runs on another thread and  *)
(* answers whenever it likes, champions, the phases the host moves through. *)
(*                                                                         *)
(* A handler runs on the event loop without awaiting before its changes are *)
(* made, so it is one action; the clean-up is two, its request and its      *)
(* answer.  Argument texts, first_side and the timer of a round are only    *)
(* set and shown; the points are left to Quiz's AwardBonus.                 *)
(***************************************************************************)
EXTENDS Activity, TLAPS, FiniteSetTheorems, WellFoundedInduction

CONSTANTS
  Pids,       \* participants, by uuid
  AI,         \* the author "__ai__"
  MaxArgs     \* bound on the arguments ever made

DebateAssumption == IsFiniteSet(Pids) /\ AI \notin Pids /\ MaxArgs \in Nat

VARIABLES
  names,      \* the registered: keys of participant_names
  phase,      \* DebateState.phase, "none" for None
  sides,      \* side of each participant, "none" = not in the dict
  auto,       \* auto_assigned
  champions,  \* champion of each side, AI = seat free
  args,       \* arguments: [id, author, side, up |-> upvoters, into |-> merged_into or 0]
  made,       \* history: arguments ever made; ids are never used again
  cleanups    \* running clean-ups, each the set of ids it was asked about

debateVars == <<phase, sides, auto, champions, args, made, cleanups>>
vars == <<names, debateVars, activityVars>>

Sides == {"for", "against"}
Other(s) == CHOOSE t \in Sides : t # s
Phases == {"none", "side_selection", "arguments", "ai_cleanup", "prep", "live_debate", "ended"}
NoSides == [p \in Pids |-> "none"]
NoChampions == [s \in Sides |-> AI]
Ids == 1 .. MaxArgs

Members(v, s) == {p \in Pids : v[p] = s}
Count(v, s) == Cardinality(Members(v, s))
BothSides(v) == Count(v, "for") > 0 /\ Count(v, "against") > 0
Unassigned == {p \in names : sides[p] = "none"}

----------------------------------------------------------------------------
(* Sides                                                                    *)

\* Rejected variant of ForShare: who joins is not counted.
ForShareUncounted(f, g, u) == IF f <= g THEN u ELSE 0

\* How many of u people, taken one by one, the loop puts on the "for" side when f are
\* for and g against: each goes to the smaller side, on a tie to "for".
ForShare(f, g, u) ==
  LET share[k \in 0 .. u] ==
        IF k = 0 THEN 0
        ELSE share[k - 1] +
               (IF f + share[k - 1] <= g + (k - 1 - share[k - 1]) THEN 1 ELSE 0)
  IN share[u]

\* The sides v may become when the people of S, shuffled, are assigned one by one.
Assigned(v, S) ==
  LET share == ForShare(Count(v, "for"), Count(v, "against"), Cardinality(S))
  IN {[p \in Pids |-> IF p \in F THEN "for" ELSE IF p \in S THEN "against" ELSE v[p]] :
        F \in {F \in SUBSET S : Cardinality(F) = share}}

\* auto_assign_remaining: only once half of the registered have a side.
Settled(v) ==
  LET open == {p \in names : v[p] = "none"}
      done == names \ open
  IN IF done = {} \/ 2 * Cardinality(done) < Cardinality(names) THEN {v}
     ELSE Assigned(v, open)

\* What auto_assign_remaining has changed is recorded in auto_assigned.
Newly(v, w) == {p \in Pids : v[p] # w[p]}

\* POST debate/pick-side: the first choice is final; the rest follows once half have chosen,
\* and the debate moves on when everybody has a side and neither is empty.
PickSide(p, s) ==
  /\ activity = "debate" /\ phase = "side_selection" /\ sides[p] = "none"
  /\ LET mine == [sides EXCEPT ![p] = s]
     IN \E v \in Settled(mine) :
          /\ sides' = v /\ auto' = auto \cup Newly(mine, v)
          /\ phase' = IF (\A q \in names : v[q] # "none") /\ BothSides(v)
                      THEN "arguments" ELSE phase
  /\ UNCHANGED <<names, champions, args, made, cleanups, activityVars>>

\* POST debate/close-selection, in any phase.
CloseSelection ==
  /\ \E v \in Settled(sides) :
       /\ sides' = v /\ auto' = auto \cup Newly(sides, v)
       /\ phase' = IF BothSides(v) THEN "arguments" ELSE phase
  /\ UNCHANGED <<names, champions, args, made, cleanups, activityVars>>

\* POST debate/force-assign, in any phase; does nothing when all have a side.
ForceAssign ==
  /\ Unassigned # {}
  /\ \E v \in Assigned(sides, Unassigned) : sides' = v
  /\ auto' = auto \cup Unassigned /\ phase' = "arguments"
  /\ UNCHANGED <<names, champions, args, made, cleanups, activityVars>>

----------------------------------------------------------------------------
(* Arguments and champions                                                  *)

Argument(id, author, side) ==
  [id |-> id, author |-> author, side |-> side, up |-> {}, into |-> 0]

\* POST debate/argument.
SubmitArgument(p) ==
  /\ activity = "debate" /\ phase = "arguments" /\ sides[p] # "none"
  /\ made < MaxArgs /\ made' = made + 1
  /\ args' = args \cup {Argument(made + 1, p, sides[p])}
  /\ UNCHANGED <<names, phase, sides, auto, champions, cleanups, activityVars>>

\* POST debate/upvote, in any phase, also for an argument merged into another.
Upvote(p, a) ==
  /\ activity = "debate" /\ a \in args
  /\ p \notin a.up /\ a.author # p
  /\ args' = (args \ {a}) \cup {[a EXCEPT !.up = @ \cup {p}]}
  /\ UNCHANGED <<names, phase, sides, auto, champions, made, cleanups, activityVars>>

\* POST debate/volunteer.
Volunteer(p) ==
  /\ activity = "debate" /\ phase = "prep"
  /\ sides[p] # "none" /\ champions[sides[p]] = AI
  /\ champions' = [champions EXCEPT ![sides[p]] = p]
  /\ UNCHANGED <<names, phase, sides, auto, args, made, cleanups, activityVars>>

----------------------------------------------------------------------------
(* The clean-up                                                             *)

OpenIds == {a.id : a \in {b \in args : b.into = 0}}

\* POST debate/end-arguments; straight to "prep" when there is nothing to clean up.
EndArguments ==
  /\ phase = "arguments"
  /\ OpenIds \notin cleanups      \* bound: one running request about the same arguments
  /\ IF OpenIds = {} THEN phase' = "prep" /\ UNCHANGED cleanups
     ELSE phase' = "ai_cleanup" /\ cleanups' = cleanups \cup {OpenIds}
  /\ UNCHANGED <<names, sides, auto, champions, args, made, activityVars>>

\* Rejected variant of Merged: the votes move instead of adding up.
MergedVotesMove(k, R) ==
  LET votes == UNION {a.up : a \in {b \in args : b.id \in R}}
  IN {[a EXCEPT !.into = IF a.id \in R THEN k ELSE @,
                !.up = IF a.id = k THEN votes ELSE @] : a \in args}

\* apply_ai_result's merge of the arguments with ids R into the one with id k: also when
\* either is not there (any more).
Merged(k, R) ==
  LET votes == UNION {a.up : a \in {b \in args : b.id \in R}}
  IN {[a EXCEPT !.into = IF a.id \in R THEN k ELSE @,
                !.up = IF a.id = k THEN @ \cup votes ELSE @] : a \in args}

\* apply_ai_result: one merge at most, and the sides of the new arguments; always on to
\* "prep", whatever the phase.
ApplyAiResult(k, R, new) ==
  /\ made + Cardinality(new) <= MaxArgs /\ made' = made + Cardinality(new)
  /\ args' = Merged(k, R) \cup
       {Argument(IF s = "for" \/ Other(s) \notin new THEN made + 1 ELSE made + 2, AI, s) :
          s \in new}
  /\ phase' = "prep"
  /\ UNCHANGED <<names, sides, auto, champions, activityVars>>

\* The model answers a request with merges and additions, or fails: then nothing is merged.
CleanupAnswers(ids) ==
  /\ cleanups' = cleanups \ {ids}
  /\ \E k \in ids, R \in SUBSET ids, new \in SUBSET Sides :
       k \notin R /\ ApplyAiResult(k, R, new)

\* POST debate/ai-result, which the host's page sends empty, to skip the clean-up.
SkipCleanup == ApplyAiResult(0, {}, {}) /\ UNCHANGED cleanups

----------------------------------------------------------------------------
(* Host and the rest of the daemon                                          *)

Cleared(ph) ==
  /\ phase' = ph /\ sides' = NoSides /\ auto' = {} /\ champions' = NoChampions
  /\ args' = {} /\ UNCHANGED <<made, cleanups, names>>

\* POST debate, POST debate/reset, POST debate/phase.  A running clean-up stays.
LaunchDebate == Cleared("side_selection") /\ Route("debate")
ResetDebate == Cleared("none") /\ Route("none")
AdvancePhase(ph) ==
  /\ phase' = ph
  /\ UNCHANGED <<names, sides, auto, champions, args, made, cleanups, activityVars>>

Register(p) == names' = names \cup {p} /\ UNCHANGED <<debateVars, activityVars>>

\* Rejected variant of Purge: the seat of a champion stays taken.
PurgeKeepsSeat(p) ==
  /\ names' = names \ {p} /\ auto' = auto \ {p}
  /\ sides' = [sides EXCEPT ![p] = "none"]
  /\ args' = {[a EXCEPT !.up = @ \ {p}] : a \in {b \in args : b.author # p}}
  /\ UNCHANGED <<phase, champions, made, cleanups, activityVars>>

\* purge_participant: side, seat, own arguments and upvotes go; merged_into stays.
Purge(p) ==
  /\ names' = names \ {p} /\ auto' = auto \ {p}
  /\ sides' = [sides EXCEPT ![p] = "none"]
  /\ champions' = [s \in Sides |-> IF champions[s] = p THEN AI ELSE champions[s]]
  /\ args' = {[a EXCEPT !.up = @ \ {p}] : a \in {b \in args : b.author # p}}
  /\ UNCHANGED <<phase, made, cleanups, activityVars>>

\* The daemon restarts: the state comes back from the session's file, no clean-up does.
Restart ==
  /\ cleanups' = {} /\ ActivityRestored
  /\ UNCHANGED <<names, phase, sides, auto, champions, args, made>>

Init ==
  /\ names = {} /\ phase = "none" /\ sides = NoSides /\ auto = {}
  /\ champions = NoChampions /\ args = {} /\ made = 0 /\ cleanups = {}
  /\ ActivityInit

Next ==
  \/ LaunchDebate \/ ResetDebate \/ CloseSelection \/ ForceAssign
  \/ EndArguments \/ SkipCleanup \/ Restart
  \/ \E ph \in Phases \ {"none", "side_selection"} : AdvancePhase(ph)
  \/ \E ids \in cleanups : CleanupAnswers(ids)
  \/ \E p \in Pids : SubmitArgument(p) \/ Volunteer(p) \/ Register(p) \/ Purge(p)
  \/ \E p \in Pids, s \in Sides : PickSide(p, s)
  \/ \E p \in Pids, a \in args : Upvote(p, a)
  \/ \E a \in {"none", "debate"} : SetActivity(a) /\ UNCHANGED <<names, debateVars>>

Spec == Init /\ [][Next]_vars

----------------------------------------------------------------------------
(* Properties                                                               *)

\* The variables have the types the code gives them.
TypeOK ==
  /\ names \subseteq Pids /\ phase \in Phases
  /\ sides \in [Pids -> Sides \cup {"none"}] /\ auto \subseteq Pids
  /\ champions \in [Sides -> Pids \cup {AI}]
  /\ args \subseteq [id : Ids, author : Pids \cup {AI}, side : Sides,
                     up : SUBSET Pids, into : {0} \cup Ids]
  /\ made \in 0 .. MaxArgs /\ cleanups \subseteq SUBSET Ids
  /\ ActivityTypeOK

\* However people are assigned, purged and re-assigned, and whichever clean-up answers
\* when: a champion speaks for the side he is on, an argument stands on the side of its
\* author, and who was assigned has a side.
TeamsAgree ==
  /\ \A s \in Sides : champions[s] # AI => sides[champions[s]] = s
  /\ \A a \in args : a.author # AI => sides[a.author] = a.side
  /\ \A p \in auto : sides[p] # "none"

Difference(v) == LET d == Count(v, "for") - Count(v, "against") IN IF d < 0 THEN - d ELSE d

AssignmentBalances ==
  auto' # auto /\ auto \subseteq auto' =>
    LET new == auto' \ auto
        before == [p \in Pids |-> IF p \in new THEN "none" ELSE sides'[p]]
    IN Difference(sides') <= 1 \/ Difference(sides') = Difference(before) - Cardinality(new)

\* The people one step assigns even the teams out: the difference is at most one
\* afterwards, or all of them went to the smaller side.
AutoAssignBalances == [][AssignmentBalances]_vars

\* An upvote was paid for (25 and 50 points), so it stays: until its debate is gone,
\* its argument or its voter purged, no clean-up, whenever it answers, takes it back;
\* else it could be given, and paid, again.
PaidVotesStick ==
  [][\A a \in args, p \in Pids :
       p \in a.up =>
         \/ args' = {}
         \/ \E b \in args' : b.id = a.id /\ (p \in b.up \/ Purge(p))
         \/ a.author # AI /\ Purge(a.author)]_vars

----------------------------------------------------------------------------
(* A promise the code does not keep; TLC shows how                          *)

\* debate/router.py:289, "triggers AI cleanup in background": what comes back is for the
\* debate that asked, while it waits for it.  Nothing cancels a clean-up nor names its
\* debate, so it answers into the next one and moves that on, too.
ResultsComeHome ==
  [][\A ids \in cleanups :
       CleanupAnswers(ids) => phase = "ai_cleanup" /\ ids \subseteq {a.id : a \in args}]_vars

----------------------------------------------------------------------------
(* Theorems about Debate, for every finite set of participants and every   *)
(* number of arguments.  How evenly ForShare divides people is proved from  *)
(* a closed form of it: a first number on which they differ cannot exist.   *)

Arguments == [id : Ids, author : Pids \cup {AI}, side : Sides,
              up : SUBSET Pids, into : {0} \cup Ids]
Choices == [Pids -> Sides \cup {"none"}]

PeopleTypeOK == names \subseteq Pids /\ sides \in Choices /\ auto \subseteq Pids
StageTypeOK ==
  phase \in Phases /\ champions \in [Sides -> Pids \cup {AI}] /\ cleanups \subseteq SUBSET Ids
ArgsTypeOK == args \subseteq Arguments /\ made \in 0 .. MaxArgs

----------------------------------------------------------------------------
(* Lemmas about the operators                                               *)

\* An assignment gives the people of S a side and nobody else another one.
LEMMA AssignedSides ==
  ASSUME NEW v \in Choices, NEW S \in SUBSET Pids, NEW w \in Assigned(v, S)
  PROVE  /\ w \in Choices
         /\ \A p \in S : w[p] \in Sides
         /\ \A p \in Pids \ S : w[p] = v[p]
<1>1. PICK F \in SUBSET S :
        w = [p \in Pids |-> IF p \in F THEN "for" ELSE IF p \in S THEN "against" ELSE v[p]]
  BY DEF Assigned
<1> QED BY <1>1 DEF Choices, Sides

\* Who has a side keeps it when the selection settles, who gets another one gets a side.
LEMMA SettledSides ==
  ASSUME names \subseteq Pids, NEW v \in Choices, NEW w \in Settled(v)
  PROVE  /\ w \in Choices
         /\ \A p \in Pids : v[p] # "none" => w[p] = v[p]
         /\ \A p \in Newly(v, w) : w[p] \in Sides
<1> DEFINE open == {p \in names : v[p] = "none"}
<1>1. w = v \/ w \in Assigned(v, open)
  BY DEF Settled
<1>2. CASE w = v
  BY <1>2 DEF Newly
<1>3. CASE w \in Assigned(v, open)
  <2>1. open \in SUBSET Pids
    OBVIOUS
  <2>2. /\ w \in Choices
        /\ \A p \in open : w[p] \in Sides
        /\ \A p \in Pids \ open : w[p] = v[p]
    BY <1>3, <2>1, AssignedSides
  <2> QED BY <2>2 DEF Newly
<1> QED BY <1>1, <1>2, <1>3

\* A merge keeps every argument, with its author, its side and its upvotes.
LEMMA MergedArgs ==
  ASSUME args \subseteq Arguments, NEW k \in {0} \cup Ids, NEW R, k = 0 => R = {}
  PROVE  /\ Merged(k, R) \subseteq Arguments
         /\ \A b \in Merged(k, R) : \E a \in args : b.author = a.author /\ b.side = a.side
         /\ \A a \in args : \E b \in Merged(k, R) : b.id = a.id /\ a.up \subseteq b.up
<1> DEFINE votes == UNION {a.up : a \in {b \in args : b.id \in R}}
           Image(a) == [a EXCEPT !.into = IF a.id \in R THEN k ELSE @,
                                 !.up = IF a.id = k THEN @ \cup votes ELSE @]
<1>1. Merged(k, R) = {Image(a) : a \in args}
  BY DEF Merged
<1>2. votes \subseteq Pids
  BY DEF Arguments
<1> HIDE DEF votes
<1>3. ASSUME NEW a \in args
      PROVE  /\ Image(a) \in Arguments
             /\ Image(a).author = a.author /\ Image(a).side = a.side
             /\ Image(a).id = a.id /\ a.up \subseteq Image(a).up
  BY <1>2 DEF Arguments
<1> HIDE DEF Image
<1> QED BY <1>1, <1>3

\* New arguments of the model get numbers of their own within the bound.
LEMMA NewNumbers ==
  ASSUME DebateAssumption, made \in 0 .. MaxArgs, NEW new \in SUBSET Sides,
         made + Cardinality(new) <= MaxArgs, NEW s \in new
  PROVE  (IF s = "for" \/ Other(s) \notin new THEN made + 1 ELSE made + 2) \in Ids
<1>1. \A t \in Sides : Other(t) \in Sides /\ Other(t) # t
  <2>1. ASSUME NEW t \in Sides PROVE \E u \in Sides : u # t
    BY DEF Sides
  <2> QED BY <2>1 DEF Other
<1>2. IsFiniteSet(new) /\ Cardinality(new) \in Nat
  <2>1. IsFiniteSet({"for"}) /\ IsFiniteSet({"for"} \cup {"against"})
    BY FS_Singleton, FS_AddElement
  <2>2. new \subseteq {"for"} \cup {"against"}
    BY DEF Sides
  <2> QED BY <2>1, <2>2, FS_Subset, FS_CardinalityType
<1>3. Cardinality(new \ {s}) = Cardinality(new) - 1 /\ Cardinality(new \ {s}) \in Nat
  BY <1>2, FS_RemoveElement, FS_CardinalityType
<1>4. CASE Other(s) \notin new \/ s = "for"
  BY <1>2, <1>3, <1>4 DEF Ids, DebateAssumption
<1>5. CASE Other(s) \in new /\ s # "for"
  <2>1. Other(s) \in new \ {s}
    BY <1>1, <1>5
  <2>2. IsFiniteSet(new \ {s}) /\ IsFiniteSet((new \ {s}) \ {Other(s)})
    BY <1>2, FS_RemoveElement
  <2>3. Cardinality((new \ {s}) \ {Other(s)}) = Cardinality(new \ {s}) - 1
    BY <2>1, <2>2, FS_RemoveElement
  <2>4. Cardinality((new \ {s}) \ {Other(s)}) \in Nat
    BY <2>2, FS_CardinalityType
  <2>5. Cardinality(new) >= 2
    BY <1>2, <1>3, <2>3, <2>4
  <2> QED BY <1>2, <1>5, <2>5 DEF Ids, DebateAssumption
<1> QED BY <1>4, <1>5

\* What an answer of the model does to the arguments.
LEMMA AppliedArgs ==
  ASSUME DebateAssumption, ArgsTypeOK, NEW k \in {0} \cup Ids, NEW R, k = 0 => R = {},
         NEW new \in SUBSET Sides, ApplyAiResult(k, R, new)
  PROVE  /\ ArgsTypeOK'
         /\ \A b \in args' : b.author = AI \/ \E a \in args : b.author = a.author /\ b.side = a.side
         /\ \A a \in args : \E b \in args' : b.id = a.id /\ a.up \subseteq b.up
<1> DEFINE id(s) == IF s = "for" \/ Other(s) \notin new THEN made + 1 ELSE made + 2
           Added == {Argument(id(s), AI, s) : s \in new}
<1>1. args' = Merged(k, R) \cup Added
  BY DEF ApplyAiResult
<1>2. \A s \in new : id(s) \in Ids
  BY NewNumbers DEF ApplyAiResult, ArgsTypeOK
<1> HIDE DEF id
<1>3. \A b \in Added : b \in Arguments /\ b.author = AI
  BY <1>2 DEF Argument, Arguments
<1> HIDE DEF Added
<1>4. /\ Merged(k, R) \subseteq Arguments
      /\ \A b \in Merged(k, R) : \E a \in args : b.author = a.author /\ b.side = a.side
      /\ \A a \in args : \E b \in Merged(k, R) : b.id = a.id /\ a.up \subseteq b.up
  <2>1. args \subseteq Arguments
    BY DEF ArgsTypeOK
  <2> QED BY <2>1, MergedArgs
<1>5. made' \in 0 .. MaxArgs
  <2>1. IsFiniteSet(new)
    <3>1. IsFiniteSet({"for"}) /\ IsFiniteSet({"for"} \cup {"against"})
      BY FS_Singleton, FS_AddElement
    <3>2. new \subseteq {"for"} \cup {"against"}
      BY DEF Sides
    <3> QED BY <3>1, <3>2, FS_Subset
  <2>2. Cardinality(new) \in Nat
    BY <2>1, FS_CardinalityType
  <2> QED BY <2>2 DEF ApplyAiResult, ArgsTypeOK, DebateAssumption
<1>6. args' \subseteq Arguments
  BY <1>1, <1>3, <1>4
<1>7. \A b \in args' : b.author = AI \/ \E a \in args : b.author = a.author /\ b.side = a.side
  BY <1>1, <1>3, <1>4
<1>8. \A a \in args : \E b \in args' : b.id = a.id /\ a.up \subseteq b.up
  BY <1>1, <1>4
<1> QED BY <1>5, <1>6, <1>7, <1>8 DEF ArgsTypeOK

----------------------------------------------------------------------------
(* The invariant                                                            *)

Spokesmen == \A s \in Sides : champions[s] # AI => sides[champions[s]] = s
Standpoints == \A a \in args : a.author # AI => sides[a.author] = a.side
Assignees == \A p \in auto : sides[p] # "none"
Types == PeopleTypeOK /\ StageTypeOK /\ ArgsTypeOK /\ ActivityTypeOK
Teams == Types /\ Spokesmen /\ Standpoints /\ Assignees

\* Whoever gets a side keeps the teams in order when nobody who had one loses it.
LEMMA SidesGrow ==
  ASSUME DebateAssumption, Teams, sides' \in Choices, auto' \subseteq Pids,
         \A p \in Pids : sides[p] # "none" => sides'[p] = sides[p],
         \A p \in auto' : sides'[p] # "none",
         UNCHANGED <<names, champions, args, made, cleanups, activityVars>>, phase' \in Phases
  PROVE  Teams'
<1> USE DEF Teams, Types
<1>1. PeopleTypeOK' BY DEF PeopleTypeOK
<1>2. StageTypeOK' BY DEF StageTypeOK
<1>3. ArgsTypeOK' BY DEF ArgsTypeOK
<1>4. ActivityTypeOK' BY DEF ActivityTypeOK, activityVars
<1>5. Spokesmen'
  BY DEF Spokesmen, StageTypeOK, Sides
<1>6. Standpoints'
  <2>1. \A a \in args : a.side # "none" /\ a.author \in Pids \cup {AI}
    BY DEF ArgsTypeOK, Arguments, Sides
  <2> QED BY <2>1 DEF Standpoints
<1>7. Assignees' BY DEF Assignees
<1> QED BY <1>1, <1>2, <1>3, <1>4, <1>5, <1>6, <1>7

\* New arguments keep them in order when they stand where their authors do.
LEMMA ArgsChange ==
  ASSUME Teams, ArgsTypeOK', UNCHANGED <<names, sides, auto, champions>>, ActivityTypeOK',
         phase' \in Phases, cleanups' \subseteq SUBSET Ids,
         \A b \in args' : b.author # AI => sides[b.author] = b.side
  PROVE  Teams'
<1> USE DEF Teams, Types
<1>1. PeopleTypeOK' BY DEF PeopleTypeOK
<1>2. StageTypeOK' BY DEF StageTypeOK
<1>3. Spokesmen' BY DEF Spokesmen
<1>4. Standpoints' BY DEF Standpoints
<1>5. Assignees' BY DEF Assignees
<1> QED BY <1>1, <1>2, <1>3, <1>4, <1>5

\* The start, and what a new or a reset debate is.
LEMMA InitHolds == DebateAssumption /\ Init => Teams
<1> SUFFICES ASSUME DebateAssumption, Init PROVE Teams
  OBVIOUS
<1> USE DEF Init
<1>1. PeopleTypeOK BY DEF PeopleTypeOK, NoSides, Choices
<1>2. StageTypeOK BY DEF StageTypeOK, NoChampions, Phases
<1>3. ArgsTypeOK BY DEF ArgsTypeOK, DebateAssumption
<1>4. ActivityTypeOK BY DEF ActivityInit, ActivityTypeOK, Activities
<1>5. Spokesmen /\ Standpoints /\ Assignees
  BY DEF Spokesmen, NoChampions, Standpoints, Assignees
<1> QED BY <1>1, <1>2, <1>3, <1>4, <1>5 DEF Teams, Types

\* Clearing a debate restores the invariant, whatever was there.
LEMMA ClearedHolds ==
  ASSUME Teams, NEW ph \in Phases, Cleared(ph), ActivityTypeOK'
  PROVE  Teams'
<1> USE DEF Cleared, Teams, Types
<1>1. PeopleTypeOK' BY DEF PeopleTypeOK, NoSides, Choices
<1>2. StageTypeOK' BY DEF StageTypeOK, NoChampions
<1>3. ArgsTypeOK' BY DEF ArgsTypeOK
<1>4. Spokesmen' /\ Standpoints' /\ Assignees'
  BY DEF Spokesmen, NoChampions, Standpoints, Assignees
<1> QED BY <1>1, <1>2, <1>3, <1>4

\* Every step keeps champions, arguments and assignments in agreement with the sides.
LEMMA StepHolds == DebateAssumption /\ Teams /\ [Next]_vars => Teams'
<1> SUFFICES ASSUME DebateAssumption, Teams, [Next]_vars PROVE Teams'
  OBVIOUS
<1>t. PeopleTypeOK /\ StageTypeOK /\ ArgsTypeOK /\ ActivityTypeOK
  BY DEF Teams, Types
<1>a. ASSUME UNCHANGED activityVars PROVE ActivityTypeOK'
  BY <1>a, <1>t DEF activityVars, ActivityTypeOK
<1>r. ASSUME NEW a \in Activities, Route(a) PROVE ActivityTypeOK'
  BY <1>r DEF Route, ActivityTypeOK
<1>n. "arguments" \in Phases /\ "prep" \in Phases /\ "none" \in Phases /\ "side_selection" \in Phases
      /\ "ai_cleanup" \in Phases
  BY DEF Phases
<1>1. CASE LaunchDebate \/ ResetDebate
  <2>1. "debate" \in Activities /\ "none" \in Activities BY DEF Activities
  <2> QED BY <1>1, <1>r, <1>n, <2>1, ClearedHolds DEF LaunchDebate, ResetDebate
<1>2. ASSUME NEW v \in Choices, NEW w \in Settled(v), sides' = w,
             auto' = auto \cup Newly(v, w), phase' \in Phases,
             \A p \in Pids : sides[p] # "none" => v[p] = sides[p],
             UNCHANGED <<names, champions, args, made, cleanups, activityVars>>
      PROVE  Teams'
  <2>1. /\ w \in Choices
        /\ \A p \in Pids : v[p] # "none" => w[p] = v[p]
        /\ \A p \in Newly(v, w) : w[p] \in Sides
    BY <1>t, SettledSides DEF PeopleTypeOK
  <2>2. \A p \in Pids : sides[p] # "none" => sides'[p] = sides[p]
    BY <1>2, <2>1
  <2>3. auto' \subseteq Pids
    BY <1>2, <1>t DEF Newly, PeopleTypeOK
  <2>4. \A p \in auto' : sides'[p] # "none"
    BY <1>2, <1>t, <2>1, <2>2 DEF Teams, Assignees, Sides, PeopleTypeOK
  <2> QED BY <1>2, <2>1, <2>2, <2>3, <2>4, SidesGrow
<1>3. ASSUME NEW p \in Pids, NEW s \in Sides, PickSide(p, s) PROVE Teams'
  <2> DEFINE mine == [sides EXCEPT ![p] = s]
  <2>1. PICK v \in Settled(mine) :
          /\ sides' = v /\ auto' = auto \cup Newly(mine, v)
          /\ phase' = IF (\A q \in names : v[q] # "none") /\ BothSides(v)
                      THEN "arguments" ELSE phase
    BY <1>3 DEF PickSide
  <2>2. mine \in Choices
    BY <1>t DEF PeopleTypeOK, Choices
  <2>3. \A q \in Pids : sides[q] # "none" => mine[q] = sides[q]
    BY <1>3, <1>t DEF PickSide, PeopleTypeOK, Choices
  <2>4. phase' \in Phases
    BY <2>1, <1>n, <1>t DEF StageTypeOK
  <2>5. UNCHANGED <<names, champions, args, made, cleanups, activityVars>>
    BY <1>3 DEF PickSide
  <2> HIDE DEF mine
  <2> QED BY <1>2, <2>1, <2>2, <2>3, <2>4, <2>5
<1>4. CASE CloseSelection
  <2>1. PICK v \in Settled(sides) :
          /\ sides' = v /\ auto' = auto \cup Newly(sides, v)
          /\ phase' = IF BothSides(v) THEN "arguments" ELSE phase
    BY <1>4 DEF CloseSelection
  <2>2. phase' \in Phases
    BY <2>1, <1>n, <1>t DEF StageTypeOK
  <2>3. sides \in Choices
    BY <1>t DEF PeopleTypeOK
  <2> QED BY <1>2, <1>4, <2>1, <2>2, <2>3 DEF CloseSelection
<1>5. CASE ForceAssign
  <2>1. PICK w \in Assigned(sides, Unassigned) : sides' = w
    BY <1>5 DEF ForceAssign
  <2>2. sides \in Choices /\ Unassigned \in SUBSET Pids
    BY <1>t DEF PeopleTypeOK, Unassigned
  <2>3. /\ w \in Choices /\ \A p \in Unassigned : w[p] \in Sides
        /\ \A p \in Pids \ Unassigned : w[p] = sides[p]
    BY <2>1, <2>2, AssignedSides
  <2>4. auto' = auto \cup Unassigned /\ phase' = "arguments"
        /\ UNCHANGED <<names, champions, args, made, cleanups, activityVars>>
    BY <1>5 DEF ForceAssign
  <2>5. \A p \in Pids : sides[p] # "none" => sides'[p] = sides[p]
    BY <2>1, <2>3 DEF Unassigned
  <2>6. auto' \subseteq Pids
    BY <2>2, <2>4, <1>t DEF PeopleTypeOK
  <2>7. \A p \in auto' : sides'[p] # "none"
    BY <2>1, <2>3, <2>4, <2>5, <1>t DEF Teams, Assignees, Sides, PeopleTypeOK
  <2> QED BY <1>n, <2>1, <2>3, <2>4, <2>5, <2>6, <2>7, SidesGrow
<1>6. ASSUME NEW p \in Pids, SubmitArgument(p) PROVE Teams'
  <2> DEFINE arg == Argument(made + 1, p, sides[p])
  <2>1. arg \in Arguments /\ arg.author = p /\ arg.side = sides[p] /\ made' \in 0 .. MaxArgs
    BY <1>6, <1>t DEF SubmitArgument, Argument, Arguments, PeopleTypeOK, Choices, ArgsTypeOK, Ids,
                      DebateAssumption
  <2>2. args' = args \cup {arg}
    BY <1>6 DEF SubmitArgument
  <2> HIDE DEF arg
  <2>3. ArgsTypeOK'
    BY <1>t, <2>1, <2>2 DEF ArgsTypeOK
  <2>4. \A b \in args' : b.author # AI => sides[b.author] = b.side
    BY <2>1, <2>2 DEF Teams, Standpoints
  <2> QED BY <1>6, <1>t, <1>a, <2>3, <2>4, ArgsChange DEF SubmitArgument, StageTypeOK
<1>7. ASSUME NEW p \in Pids, NEW a \in args, Upvote(p, a) PROVE Teams'
  <2> DEFINE b == [a EXCEPT !.up = @ \cup {p}]
  <2>1. b \in Arguments /\ b.author = a.author /\ b.side = a.side
    BY <1>t DEF ArgsTypeOK, Arguments
  <2>2. args' = (args \ {a}) \cup {b} /\ made' = made
    BY <1>7 DEF Upvote
  <2> HIDE DEF b
  <2>3. ArgsTypeOK'
    BY <1>t, <2>1, <2>2 DEF ArgsTypeOK
  <2>4. \A c \in args' : c.author # AI => sides[c.author] = c.side
    BY <2>1, <2>2 DEF Teams, Standpoints
  <2> QED BY <1>7, <1>t, <1>a, <2>3, <2>4, ArgsChange DEF Upvote, StageTypeOK
<1>8. ASSUME NEW p \in Pids, Volunteer(p) PROVE Teams'
  <2>1. sides[p] \in Sides
    BY <1>8, <1>t DEF Volunteer, PeopleTypeOK, Choices
  <2>2. champions' = [champions EXCEPT ![sides[p]] = p]
        /\ UNCHANGED <<names, phase, sides, auto, args, made, cleanups, activityVars>>
    BY <1>8 DEF Volunteer
  <2>3. PeopleTypeOK' BY <1>t, <2>2 DEF PeopleTypeOK
  <2>4. StageTypeOK' BY <1>t, <2>1, <2>2 DEF StageTypeOK
  <2>5. ArgsTypeOK' BY <1>t, <2>2 DEF ArgsTypeOK
  <2>6. Spokesmen' BY <1>t, <2>1, <2>2 DEF Teams, Spokesmen, StageTypeOK
  <2>7. Standpoints' /\ Assignees' BY <2>2 DEF Teams, Standpoints, Assignees
  <2> QED BY <1>a, <2>2, <2>3, <2>4, <2>5, <2>6, <2>7 DEF Teams, Types
<1>9. CASE EndArguments
  <2>1. OpenIds \subseteq Ids
    BY <1>t DEF OpenIds, ArgsTypeOK, Arguments
  <2>2. phase' \in Phases /\ cleanups' \subseteq SUBSET Ids
    BY <1>9, <1>n, <1>t, <2>1 DEF EndArguments, StageTypeOK
  <2>3. UNCHANGED <<names, sides, auto, champions, args, made, activityVars>>
    BY <1>9 DEF EndArguments
  <2>4. ArgsTypeOK' BY <1>t, <2>3 DEF ArgsTypeOK
  <2>5. \A b \in args' : b.author # AI => sides[b.author] = b.side
    BY <2>3 DEF Teams, Standpoints
  <2> QED BY <1>a, <2>2, <2>3, <2>4, <2>5, ArgsChange
<1>10. ASSUME NEW k \in {0} \cup Ids, NEW R, k = 0 => R = {}, NEW new \in SUBSET Sides,
              ApplyAiResult(k, R, new), cleanups' \subseteq cleanups
       PROVE  Teams'
  <2>1. /\ ArgsTypeOK'
        /\ \A b \in args' : b.author = AI \/ \E a \in args : b.author = a.author /\ b.side = a.side
    BY <1>10, <1>t, AppliedArgs
  <2>2. \A b \in args' : b.author # AI => sides[b.author] = b.side
    BY <2>1 DEF Teams, Standpoints
  <2>3. UNCHANGED <<names, sides, auto, champions, activityVars>> /\ phase' = "prep"
    BY <1>10 DEF ApplyAiResult
  <2>4. cleanups' \subseteq SUBSET Ids
    BY <1>10, <1>t DEF StageTypeOK
  <2> QED BY <1>a, <1>n, <2>1, <2>2, <2>3, <2>4, ArgsChange
<1>11. ASSUME NEW ids \in cleanups, CleanupAnswers(ids) PROVE Teams'
  <2>1. PICK k \in ids, R \in SUBSET ids, new \in SUBSET Sides : ApplyAiResult(k, R, new)
    BY <1>11 DEF CleanupAnswers
  <2>2. k \in Ids /\ k # 0
    BY <1>t DEF StageTypeOK, Ids
  <2>3. cleanups' \subseteq cleanups
    BY <1>11 DEF CleanupAnswers
  <2> QED BY <1>10, <2>1, <2>2, <2>3
<1>12. CASE SkipCleanup
  <2>1. ApplyAiResult(0, {}, {}) /\ cleanups' = cleanups
    BY <1>12 DEF SkipCleanup
  <2> QED BY <1>10, <2>1
<1>13. ASSUME NEW ph \in Phases, AdvancePhase(ph) PROVE Teams'
  <2>1. UNCHANGED <<names, sides, auto, champions, args, made, cleanups, activityVars>> /\ phase' = ph
    BY <1>13 DEF AdvancePhase
  <2>2. ArgsTypeOK' BY <1>t, <2>1 DEF ArgsTypeOK
  <2>3. \A b \in args' : b.author # AI => sides[b.author] = b.side
    BY <2>1 DEF Teams, Standpoints
  <2> QED BY <1>a, <1>t, <2>1, <2>2, <2>3, ArgsChange DEF StageTypeOK
<1>14. ASSUME NEW p \in Pids, Register(p) PROVE Teams'
  <2>1. names' = names \cup {p} /\ UNCHANGED <<phase, sides, auto, champions, args, made, cleanups, activityVars>>
    BY <1>14 DEF Register, debateVars
  <2>2. PeopleTypeOK' BY <1>t, <2>1 DEF PeopleTypeOK
  <2>3. StageTypeOK' /\ ArgsTypeOK' BY <1>t, <2>1 DEF StageTypeOK, ArgsTypeOK
  <2>4. Spokesmen' /\ Standpoints' /\ Assignees'
    BY <2>1 DEF Teams, Spokesmen, Standpoints, Assignees
  <2> QED BY <1>a, <2>1, <2>2, <2>3, <2>4 DEF Teams, Types
<1>15. ASSUME NEW p \in Pids, Purge(p) PROVE Teams'
  <2>1. /\ names' = names \ {p} /\ auto' = auto \ {p}
        /\ sides' = [sides EXCEPT ![p] = "none"]
        /\ champions' = [s \in Sides |-> IF champions[s] = p THEN AI ELSE champions[s]]
        /\ args' = {[a EXCEPT !.up = @ \ {p}] : a \in {b \in args : b.author # p}}
        /\ UNCHANGED <<phase, made, cleanups, activityVars>>
    BY <1>15 DEF Purge
  <2>2. \A q \in Pids : q # p => sides'[q] = sides[q]
    BY <1>t, <2>1 DEF PeopleTypeOK, Choices
  <2>3. PeopleTypeOK' BY <1>t, <2>1 DEF PeopleTypeOK, Choices
  <2>4. StageTypeOK' BY <1>t, <2>1 DEF StageTypeOK
  <2>5. \A b \in args' : b \in Arguments /\ \E a \in args :
           a.author # p /\ b.author = a.author /\ b.side = a.side
    BY <1>t, <2>1 DEF ArgsTypeOK, Arguments
  <2>6. ArgsTypeOK' BY <1>t, <2>1, <2>5 DEF ArgsTypeOK
  <2>7. Spokesmen'
    BY <1>t, <2>1, <2>2 DEF Teams, Spokesmen, StageTypeOK
  <2>8. Standpoints'
    <3> SUFFICES ASSUME NEW b \in args', b.author # AI PROVE sides'[b.author] = b.side
      BY DEF Standpoints
    <3>1. PICK a \in args : a.author # p /\ b.author = a.author /\ b.side = a.side
      BY <2>5
    <3>2. a.author \in Pids /\ sides[a.author] = a.side
      BY <1>t, <3>1 DEF Teams, Standpoints, ArgsTypeOK, Arguments
    <3> QED BY <2>2, <3>1, <3>2
  <2>9. Assignees' BY <1>t, <2>1, <2>2 DEF Teams, Assignees, PeopleTypeOK
  <2> QED BY <1>a, <2>1, <2>3, <2>4, <2>6, <2>7, <2>8, <2>9 DEF Teams, Types
<1>16. CASE Restart
  <2>1. ActivityTypeOK'
    BY <1>16, <1>t DEF Restart, ActivityRestored, ActivityTypeOK, Activities
  <2>2. cleanups' = {} /\ UNCHANGED <<names, phase, sides, auto, champions, args, made>>
    BY <1>16 DEF Restart
  <2>3. ArgsTypeOK' BY <1>t, <2>2 DEF ArgsTypeOK
  <2>4. \A b \in args' : b.author # AI => sides[b.author] = b.side
    BY <2>2 DEF Teams, Standpoints
  <2> QED BY <1>t, <2>1, <2>2, <2>3, <2>4, ArgsChange DEF StageTypeOK
<1>17. ASSUME ActivityTypeOK', UNCHANGED <<names, debateVars>> PROVE Teams'
  <2>1. UNCHANGED <<names, phase, sides, auto, champions, args, made, cleanups>>
    BY <1>17 DEF debateVars
  <2>2. ArgsTypeOK' BY <1>t, <2>1 DEF ArgsTypeOK
  <2>3. \A b \in args' : b.author # AI => sides[b.author] = b.side
    BY <2>1 DEF Teams, Standpoints
  <2> QED BY <1>17, <1>t, <2>1, <2>2, <2>3, ArgsChange DEF StageTypeOK
<1>18. CASE (\E a \in {"none", "debate"} : SetActivity(a) /\ UNCHANGED <<names, debateVars>>)
            \/ UNCHANGED vars
  BY <1>18, <1>17, <1>a, <1>r DEF SetActivity, vars
<1> QED
  BY <1>1, <1>3, <1>4, <1>5, <1>6, <1>7, <1>8, <1>9, <1>11, <1>12, <1>13, <1>14, <1>15, <1>16,
     <1>18 DEF Next

\* What happens elsewhere leaves the teams as they are.
LEMMA StaysApart == Teams /\ UNCHANGED <<names, debateVars>> /\ ActivityTypeOK' => Teams'
  BY DEF Teams, Types, PeopleTypeOK, StageTypeOK, ArgsTypeOK, Spokesmen, Standpoints,
         Assignees, debateVars

\* The inductive invariant behind both safety theorems holds in every reachable state.
LEMMA TeamsInvariant == DebateAssumption /\ Spec => []Teams
<1> SUFFICES ASSUME DebateAssumption PROVE Spec => []Teams
  OBVIOUS
<1>1. Init => Teams
  BY InitHolds
<1>2. Teams /\ [Next]_vars => Teams'
  BY StepHolds
<1> QED BY <1>1, <1>2, PTL DEF Spec

\* Every reachable state is well-typed.
THEOREM TypeCorrect == DebateAssumption /\ Spec => []TypeOK
<1> SUFFICES ASSUME DebateAssumption PROVE Spec => []TypeOK
  OBVIOUS
<1>1. Teams => TypeOK
  BY DEF Teams, Types, PeopleTypeOK, StageTypeOK, ArgsTypeOK, TypeOK, Choices, Arguments
<1> QED BY <1>1, TeamsInvariant, PTL

\* However people are assigned, purged and assigned again, and whichever clean-up answers
\* when: champions, arguments and assignments agree with the sides.
THEOREM TeamsAlwaysAgree == DebateAssumption /\ Spec => []TeamsAgree
<1> SUFFICES ASSUME DebateAssumption PROVE Spec => []TeamsAgree
  OBVIOUS
<1>1. Teams => TeamsAgree
  BY DEF Teams, Spokesmen, Standpoints, Assignees, TeamsAgree
<1> QED BY <1>1, TeamsInvariant, PTL

----------------------------------------------------------------------------
(* Upvotes                                                                  *)

Stays(a, p) ==
  \/ args' = {}
  \/ \E b \in args' : b.id = a.id /\ (p \in b.up \/ Purge(p))
  \/ a.author # AI /\ Purge(a.author)

\* No step takes a vote back but those that end the debate, or purge its voter or the author.
LEMMA VotesHold ==
  DebateAssumption /\ Teams /\ [Next]_vars
    => \A a \in args, p \in Pids : p \in a.up => Stays(a, p)
<1> SUFFICES ASSUME DebateAssumption, Teams, [Next]_vars, NEW a \in args, NEW p \in Pids, p \in a.up
             PROVE  Stays(a, p)
  OBVIOUS
<1>t. ArgsTypeOK /\ StageTypeOK /\ a \in Arguments
  BY DEF Teams, Types, ArgsTypeOK
<1>k. ASSUME a \in args' PROVE Stays(a, p)
  BY <1>k DEF Stays
<1>1. CASE LaunchDebate \/ ResetDebate
  BY <1>1 DEF LaunchDebate, ResetDebate, Cleared, Stays
<1>2. ASSUME NEW q \in Pids, NEW c \in args, Upvote(q, c) PROVE Stays(a, p)
  <2>1. CASE a = c
    <3> DEFINE b == [c EXCEPT !.up = @ \cup {q}]
    <3>1. b \in args' BY <1>2 DEF Upvote
    <3>2. b.id = a.id /\ p \in b.up BY <2>1, <1>t DEF Arguments
    <3> QED BY <3>1, <3>2 DEF Stays
  <2>2. CASE a # c
    BY <1>2, <1>k, <2>2 DEF Upvote
  <2> QED BY <2>1, <2>2
<1>3. ASSUME NEW k \in {0} \cup Ids, NEW R, k = 0 => R = {}, NEW new \in SUBSET Sides,
             ApplyAiResult(k, R, new)
      PROVE  Stays(a, p)
  <2>1. \E b \in args' : b.id = a.id /\ a.up \subseteq b.up
    BY <1>3, <1>t, AppliedArgs
  <2> QED BY <2>1 DEF Stays
<1>4. ASSUME NEW ids \in cleanups, CleanupAnswers(ids) PROVE Stays(a, p)
  <2>1. PICK k \in ids, R \in SUBSET ids, new \in SUBSET Sides : ApplyAiResult(k, R, new)
    BY <1>4 DEF CleanupAnswers
  <2>2. k \in Ids /\ k # 0
    BY <1>t DEF StageTypeOK, Ids
  <2> QED BY <1>3, <2>1, <2>2
<1>5. CASE SkipCleanup
  <2>1. ApplyAiResult(0, {}, {})
    BY <1>5 DEF SkipCleanup
  <2> QED BY <1>3, <2>1
<1>6. ASSUME NEW q \in Pids, Purge(q) PROVE Stays(a, p)
  <2>1. CASE a.author = q
    BY <1>6, <2>1 DEF Stays, DebateAssumption
  <2>2. CASE a.author # q
    <3> DEFINE b == [a EXCEPT !.up = @ \ {q}]
    <3>1. b \in args'
      BY <1>6, <2>2 DEF Purge
    <3>2. b.id = a.id /\ (p # q => p \in b.up)
      BY <1>t DEF Arguments
    <3> QED BY <1>6, <3>1, <3>2 DEF Stays
  <2> QED BY <2>1, <2>2
<1>7. ASSUME NEW q \in Pids, SubmitArgument(q) PROVE Stays(a, p)
  BY <1>7, <1>k DEF SubmitArgument
<1>8. ASSUME NEW q \in Pids, NEW s \in Sides, PickSide(q, s) PROVE Stays(a, p)
  BY <1>8, <1>k DEF PickSide
<1>9. ASSUME NEW q \in Pids, Volunteer(q) \/ Register(q) PROVE Stays(a, p)
  BY <1>9, <1>k DEF Volunteer, Register, debateVars
<1>10. CASE CloseSelection \/ ForceAssign \/ EndArguments \/ Restart
  BY <1>10, <1>k DEF CloseSelection, ForceAssign, EndArguments, Restart
<1>11. ASSUME NEW ph \in Phases, AdvancePhase(ph) PROVE Stays(a, p)
  BY <1>11, <1>k DEF AdvancePhase
<1>12. CASE UNCHANGED <<names, debateVars>>
  BY <1>12, <1>k DEF debateVars
<1>13. CASE (\E b \in {"none", "debate"} : SetActivity(b) /\ UNCHANGED <<names, debateVars>>)
            \/ UNCHANGED vars
  BY <1>13, <1>12 DEF vars
<1> QED
  BY <1>1, <1>2, <1>4, <1>5, <1>6, <1>7, <1>8, <1>9, <1>10, <1>11, <1>13 DEF Next

\* An upvote that was paid for stays until its debate is gone, its argument or its voter
\* purged: no clean-up takes it back, whenever it answers.
THEOREM PaidVotesStay == DebateAssumption /\ Spec => PaidVotesStick
<1> SUFFICES ASSUME DebateAssumption PROVE Spec => PaidVotesStick
  OBVIOUS
<1> DEFINE Stick == \A a \in args, p \in Pids : p \in a.up => Stays(a, p)
<1>1. Teams /\ [Next]_vars => Stick
  BY VotesHold
<1>2. Stick <=> \A a \in args, p \in Pids : p \in a.up =>
                  \/ args' = {}
                  \/ \E b \in args' : b.id = a.id /\ (p \in b.up \/ Purge(p))
                  \/ a.author # AI /\ Purge(a.author)
  BY DEF Stays
<1> HIDE DEF Stick
<1> QED BY <1>1, <1>2, TeamsInvariant, PTL DEF Spec, PaidVotesStick

----------------------------------------------------------------------------
(* How evenly people are assigned                                           *)

\* A property of naturals that fails somewhere fails first at some number.
LEMMA FirstFailure ==
  ASSUME NEW T \in SUBSET Nat, T # {}
  PROVE  \E m \in T : \A t \in T : m <= t
<1> DEFINE R == {ss \in Nat \X Nat : ss[1] < ss[2]}
<1>1. IsWellFoundedOn(R, Nat)
  BY NatLessThanWellFounded DEF OpToRel
<1>2. PICK m \in T : \A w \in T : ~(<<w, m>> \in R)
  <2> HIDE DEF R
  <2> QED BY <1>1, WFMin
<1>3. ASSUME NEW t \in T PROVE m <= t
  <2>1. ~(<<t, m>> \in R)
    BY <1>2
  <2>2. t \in Nat /\ m \in Nat
    OBVIOUS
  <2>3. ~(t < m)
    BY <2>1, <2>2
  <2> QED BY <2>2, <2>3
<1> QED BY <1>3

\* How many of k people join the "for" side: all until the sides are even, or none, and
\* every other one from then on.
Joined(f, g, k) ==
  IF f <= g THEN IF k <= g - f THEN k ELSE (g - f) + ((k - (g - f) + 1) \div 2)
  ELSE IF k <= f - g THEN 0 ELSE (k - (f - g) + 1) \div 2

\* By how many "for" leads when s of k people have joined it.
Lead(f, g, k, s) ==
  LET d == (f + s) - (g + (k - s))
  IN \/ d \in {0, 1}
     \/ k <= g - f /\ d = (f - g) + k
     \/ k <= f - g /\ d = (f - g) - k

\* It never exceeds k, obeys the rule of the loop, and evens the teams out or helps the
\* smaller side only.
LEMMA JoinedStep ==
  ASSUME NEW f \in Nat, NEW g \in Nat, NEW k \in Nat
  PROVE  /\ Joined(f, g, 0) = 0
         /\ Joined(f, g, k) \in 0 .. k
         /\ k > 0 => Joined(f, g, k) = Joined(f, g, k - 1) +
              (IF f + Joined(f, g, k - 1) <= g + (k - 1 - Joined(f, g, k - 1)) THEN 1 ELSE 0)
         /\ Lead(f, g, k, Joined(f, g, k))
<1>1. \A n \in Nat : (n + 1) \div 2 \in Nat /\ 2 * ((n + 1) \div 2) \in {n, n + 1}
  OBVIOUS
<1>2. CASE f <= g
  BY <1>1, <1>2 DEF Joined, Lead
<1>3. CASE f > g
  BY <1>1, <1>3 DEF Joined, Lead
<1> QED BY <1>2, <1>3

\* It is what the loop computes.
LEMMA ForShareIs ==
  ASSUME NEW f \in Nat, NEW g \in Nat, NEW u \in Nat
  PROVE  ForShare(f, g, u) = Joined(f, g, u)
<1> DEFINE Step(h) ==
      [k \in 0 .. u |->
        IF k = 0 THEN 0
        ELSE h[k - 1] + (IF f + h[k - 1] <= g + (k - 1 - h[k - 1]) THEN 1 ELSE 0)]
    share == CHOOSE h : h = Step(h)
    J == [k \in 0 .. u |-> Joined(f, g, k)]
<1>1. ForShare(f, g, u) = share[u]
  BY Zenon DEF ForShare
<1>2. J = Step(J)
  <2>1. ASSUME NEW k \in 0 .. u PROVE J[k] = Step(J)[k]
    <3>1. k \in Nat /\ J[k] = Joined(f, g, k)
      OBVIOUS
    <3>2. CASE k = 0
      BY <3>1, <3>2, JoinedStep
    <3>3. CASE k > 0
      <4>1. k - 1 \in 0 .. u
        BY <3>3
      <4>2. J[k - 1] = Joined(f, g, k - 1)
        BY <4>1
      <4>3. Step(J)[k] = Joined(f, g, k - 1) +
              (IF f + Joined(f, g, k - 1) <= g + (k - 1 - Joined(f, g, k - 1)) THEN 1 ELSE 0)
        <5> HIDE DEF J
        <5> QED BY <3>3, <4>2
      <4> QED BY <3>1, <3>3, <4>3, JoinedStep
    <3> QED BY <3>1, <3>2, <3>3
  <2> HIDE DEF J
  <2>2. J = [k \in 0 .. u |-> J[k]]
    BY DEF J
  <2> QED BY <2>1, <2>2
<1>3. share = Step(share)
  <2> HIDE DEF J, Step
  <2> QED BY <1>2
<1>4. ASSUME NEW k \in 0 .. u PROVE share[k] = Joined(f, g, k)
  <2> DEFINE T == {n \in 0 .. u : share[n] # Joined(f, g, n)}
  <2> HIDE DEF share
  <2>1. SUFFICES ASSUME T # {} PROVE FALSE
    OBVIOUS
  <2>2. PICK n \in T : \A t \in T : n <= t
    <3>1. T \in SUBSET Nat OBVIOUS
    <3> HIDE DEF T
    <3> QED BY <2>1, <3>1, FirstFailure
  <2>3. n # 0
    BY <1>3, JoinedStep
  <2>4. n - 1 \in 0 .. u /\ n - 1 \notin T /\ n \in 0 .. u
    BY <2>2, <2>3
  <2>5. share[n - 1] = Joined(f, g, n - 1)
    BY <2>4
  <2>6. share[n] = Step(share)[n]
    BY <1>3
  <2>7. share[n] = Joined(f, g, n - 1) +
              (IF f + Joined(f, g, n - 1) <= g + (n - 1 - Joined(f, g, n - 1)) THEN 1 ELSE 0)
    BY <2>3, <2>4, <2>5, <2>6
  <2>8. share[n] = Joined(f, g, n)
    BY <2>3, <2>4, <2>7, JoinedStep
  <2> QED BY <2>8
<1> QED BY <1>1, <1>4

\* Two finite sets that share nothing have as many elements as both together.
LEMMA Disjoint ==
  ASSUME NEW S, IsFiniteSet(S), NEW T, IsFiniteSet(T), S \cap T = {}
  PROVE  Cardinality(S \cup T) = Cardinality(S) + Cardinality(T)
<1>1. Cardinality(S \cup T) = Cardinality(S) + Cardinality(T) - Cardinality(S \cap T)
  BY FS_Union
<1>2. Cardinality(S \cap T) = 0
  BY FS_EmptySet
<1>3. Cardinality(S) \in Nat /\ Cardinality(T) \in Nat
  BY FS_CardinalityType
<1> QED BY <1>1, <1>2, <1>3

\* When those without a side are assigned, the teams are even afterwards, or all of them
\* went to the smaller one.
LEMMA EvenAssigned ==
  ASSUME DebateAssumption, NEW v \in Choices, NEW S \in SUBSET Pids,
         \A p \in S : v[p] = "none", NEW w \in Assigned(v, S)
  PROVE  Difference(w) <= 1 \/ Difference(w) = Difference(v) - Cardinality(S)
<1> DEFINE f == Count(v, "for")
           g == Count(v, "against")
           u == Cardinality(S)
           s == Joined(f, g, u)
<1>1. /\ IsFiniteSet(S) /\ IsFiniteSet(Members(v, "for")) /\ IsFiniteSet(Members(v, "against"))
      /\ f \in Nat /\ g \in Nat /\ u \in Nat
  BY FS_Subset, FS_CardinalityType DEF DebateAssumption, Members, Count
<1>2. PICK F \in SUBSET S :
        /\ Cardinality(F) = s
        /\ w = [p \in Pids |-> IF p \in F THEN "for" ELSE IF p \in S THEN "against" ELSE v[p]]
  <2>1. ForShare(f, g, u) = s
    BY <1>1, ForShareIs
  <2> QED BY <2>1 DEF Assigned
<1>3. IsFiniteSet(F) /\ IsFiniteSet(S \ F) /\ F \cup (S \ F) = S /\ F \cap (S \ F) = {}
  BY <1>1, FS_Subset
<1>4. Cardinality(S \ F) = u - s
  <2>1. u = Cardinality(F) + Cardinality(S \ F)
    BY <1>3, Disjoint
  <2>2. Cardinality(F) \in Nat /\ Cardinality(S \ F) \in Nat
    BY <1>3, FS_CardinalityType
  <2> HIDE DEF u, s
  <2> QED BY <1>2, <2>1, <2>2
<1>5. Members(w, "for") = Members(v, "for") \cup F /\ Members(v, "for") \cap F = {}
  BY <1>2 DEF Members, Choices
<1>6. Members(w, "against") = Members(v, "against") \cup (S \ F)
      /\ Members(v, "against") \cap (S \ F) = {}
  BY <1>2 DEF Members, Choices
<1>7. s \in 0 .. u
  BY <1>1, JoinedStep
<1>8. Count(w, "for") = f + s
  <2>1. Cardinality(Members(v, "for") \cup F) = Cardinality(Members(v, "for")) + Cardinality(F)
    BY <1>1, <1>3, <1>5, Disjoint
  <2> QED BY <1>2, <1>5, <2>1 DEF Count
<1>9. Count(w, "against") = g + (u - s)
  <2>1. Cardinality(Members(v, "against") \cup (S \ F))
          = Cardinality(Members(v, "against")) + Cardinality(S \ F)
    BY <1>1, <1>3, <1>6, Disjoint
  <2> QED BY <1>4, <1>6, <2>1 DEF Count
<1>10. Lead(f, g, u, s)
  <2> HIDE DEF f, g, u
  <2> QED BY <1>1, JoinedStep
<1> HIDE DEF f, g, u, s
<1>11. /\ Difference(v) = IF f - g < 0 THEN - (f - g) ELSE f - g
       /\ Difference(w) = LET d == (f + s) - (g + (u - s)) IN IF d < 0 THEN - d ELSE d
  BY <1>8, <1>9 DEF Difference, f, g
<1>12. Difference(w) <= 1 \/ Difference(w) = Difference(v) - u
  BY <1>1, <1>7, <1>10, <1>11 DEF Lead
<1> QED BY <1>12 DEF u

\* Recording them in auto_assigned is what the property looks at.
LEMMA AssignedBalances ==
  ASSUME DebateAssumption, NEW v \in Choices, NEW S \in SUBSET Pids,
         \A p \in S : v[p] = "none", \A p \in auto : v[p] # "none",
         sides' \in Assigned(v, S), auto' = auto \cup S
  PROVE  AssignmentBalances
<1>1. auto' \ auto = S
  OBVIOUS
<1>2. /\ sides' \in Choices
      /\ \A p \in Pids \ S : sides'[p] = v[p]
  BY AssignedSides
<1>3. v = [p \in Pids |-> IF p \in S THEN "none" ELSE sides'[p]]
  BY <1>2 DEF Choices
<1>4. Difference(sides') <= 1 \/ Difference(sides') = Difference(v) - Cardinality(S)
  BY EvenAssigned
<1> QED BY <1>1, <1>3, <1>4 DEF AssignmentBalances

\* Also when the selection settles.
LEMMA SettledBalances ==
  ASSUME DebateAssumption, names \subseteq Pids, NEW v \in Choices,
         \A p \in auto : v[p] # "none",
         sides' \in Settled(v), auto' = auto \cup Newly(v, sides')
  PROVE  AssignmentBalances
<1> DEFINE open == {p \in names : v[p] = "none"}
<1>1. sides' = v \/ sides' \in Assigned(v, open)
  BY DEF Settled
<1>2. CASE sides' = v
  BY <1>2 DEF Newly, AssignmentBalances
<1>3. CASE sides' \in Assigned(v, open)
  <2>1. open \in SUBSET Pids /\ \A p \in open : v[p] = "none"
    OBVIOUS
  <2>2. (\A p \in open : sides'[p] \in Sides) /\ \A p \in Pids \ open : sides'[p] = v[p]
    BY <1>3, <2>1, AssignedSides
  <2>3. Newly(v, sides') = open
    BY <2>1, <2>2 DEF Newly, Sides
  <2> HIDE DEF open
  <2> QED BY <1>3, <2>1, <2>3, AssignedBalances
<1> QED BY <1>1, <1>2, <1>3

\* Every step that assigns people evens the teams out.
LEMMA AssignmentsEven == DebateAssumption /\ Teams /\ [Next]_vars => AssignmentBalances
<1> SUFFICES ASSUME DebateAssumption, Teams, [Next]_vars PROVE AssignmentBalances
  OBVIOUS
<1>t. names \subseteq Pids /\ sides \in Choices /\ \A p \in auto : sides[p] # "none"
  BY DEF Teams, Types, PeopleTypeOK, Assignees
<1>k. ASSUME auto' \subseteq auto PROVE AssignmentBalances
  BY <1>k DEF AssignmentBalances
<1>1. ASSUME NEW p \in Pids, NEW s \in Sides, PickSide(p, s) PROVE AssignmentBalances
  <2> DEFINE mine == [sides EXCEPT ![p] = s]
  <2>1. sides' \in Settled(mine) /\ auto' = auto \cup Newly(mine, sides')
    BY <1>1 DEF PickSide
  <2>2. mine \in Choices /\ \A q \in auto : mine[q] # "none"
    BY <1>t DEF Choices, Sides
  <2> HIDE DEF mine
  <2> QED BY <1>t, <2>1, <2>2, SettledBalances
<1>2. CASE CloseSelection
  <2>1. sides' \in Settled(sides) /\ auto' = auto \cup Newly(sides, sides')
    BY <1>2 DEF CloseSelection
  <2> QED BY <1>t, <2>1, SettledBalances
<1>3. CASE ForceAssign
  <2>1. sides' \in Assigned(sides, Unassigned) /\ auto' = auto \cup Unassigned
    BY <1>3 DEF ForceAssign
  <2>2. Unassigned \in SUBSET Pids /\ \A p \in Unassigned : sides[p] = "none"
    BY <1>t DEF Unassigned
  <2> QED BY <1>t, <2>1, <2>2, AssignedBalances
<1>4. CASE LaunchDebate \/ ResetDebate
  BY <1>4, <1>k DEF LaunchDebate, ResetDebate, Cleared
<1>5. ASSUME NEW p \in Pids, Purge(p) PROVE AssignmentBalances
  BY <1>5, <1>k DEF Purge
<1>6. CASE EndArguments \/ SkipCleanup \/ Restart
  BY <1>6, <1>k DEF EndArguments, SkipCleanup, ApplyAiResult, Restart
<1>7. ASSUME NEW ids \in cleanups, CleanupAnswers(ids) PROVE AssignmentBalances
  BY <1>7, <1>k DEF CleanupAnswers, ApplyAiResult
<1>8. ASSUME NEW p \in Pids, SubmitArgument(p) \/ Volunteer(p) \/ Register(p)
      PROVE  AssignmentBalances
  BY <1>8, <1>k DEF SubmitArgument, Volunteer, Register, debateVars
<1>9. ASSUME NEW p \in Pids, NEW a \in args, Upvote(p, a) PROVE AssignmentBalances
  BY <1>9, <1>k DEF Upvote
<1>10. ASSUME NEW ph \in Phases, AdvancePhase(ph) PROVE AssignmentBalances
  BY <1>10, <1>k DEF AdvancePhase
<1>11. CASE UNCHANGED <<names, debateVars>> \/ UNCHANGED vars
  BY <1>11, <1>k DEF vars, debateVars
<1> QED
  BY <1>1, <1>2, <1>3, <1>4, <1>5, <1>6, <1>7, <1>8, <1>9, <1>10, <1>11 DEF Next

\* However the sides came about, the people one step assigns make the teams even, or all
\* join the smaller one.
THEOREM AssignmentsStayEven == DebateAssumption /\ Spec => AutoAssignBalances
<1> SUFFICES ASSUME DebateAssumption PROVE Spec => AutoAssignBalances
  OBVIOUS
<1>1. Teams /\ [Next]_vars => AssignmentBalances
  BY AssignmentsEven
<1> QED BY <1>1, TeamsInvariant, PTL DEF Spec, AutoAssignBalances
=============================================================================
