----------------------------- MODULE MCServices -----------------------------
(***************************************************************************)
(* The services around the activities, explored one by one: those of Limits *)
(* and of Records, and second instances of three for a second question.     *)
(* They share no state with one another, so the product of all of them has  *)
(* no behaviour for a property of one that this module does not have.  The  *)
(* initial state says which one moves; for a second instance v1, v2, ... are *)
(* the variables, in the order the module declares them.                    *)
(***************************************************************************)
EXTENDS Limits, Records, TLC

CONSTANTS
  Pair,                         \* two of a kind: participants, sessions, decks
  One, Two, Three, Four, Five   \* things that play different parts

\* Values a configuration has no words for: archives without decks, and the chunks of a file at
\* each version.
NoSizes == [d \in {} |-> 1]
Lengths == <<2, 1, 0, 1>>

VARIABLES
  v1, v2, v3, v4, v5, v6, v7, v8, v9, v10, v11, v12, v13, v14

ownVars == <<v1, v2, v3, v4, v5, v6, v7, v8, v9, v10, v11, v12, v13, v14>>
vars == <<limitVars, recordVars, ownVars>>

\* The component that moves has n variables; the others are not used.
Unused(n) ==
  /\ IF n = 0 THEN /\ v1 = 0 /\ v2 = 0 /\ v3 = 0 /\ v4 = 0 /\ v5 = 0 /\ v6 = 0
                  /\ v7 = 0 /\ v8 = 0 /\ v9 = 0 /\ v10 = 0 /\ v11 = 0 /\ v12 = 0
     ELSE TRUE
  /\ IF n < 13 THEN v13 = 0 ELSE TRUE
  /\ IF n < 14 THEN v14 = 0 ELSE TRUE

Kept(n) ==
  /\ IF n < 13 THEN UNCHANGED v13 ELSE TRUE
  /\ IF n < 14 THEN UNCHANGED v14 ELSE TRUE

Claims == INSTANCE Identity WITH Pids <- {Five}, Typed <- {One, Two}, Pool <- {Two},
    Guest <- Three, Trainer <- Four, MaxCalls <- 1, mode <- v1, names <- v2, order <- v3,
    anon <- v4, trainers <- v5, gate <- v6, awaiting <- v7, seen <- v8, sheet <- v9,
    file <- v10, claimed <- v11, unsaid <- v12
WithDecks == INSTANCE Materials WITH Callers <- {Three}, Sessions <- {One},
    Decks <- {1, 2}, Size <- [d \in {1, 2} |-> d], MaxZip <- 2, MaxBuilds <- 1,
    linked <- v1, session <- v2, folder <- v3, slot <- v4, waiting <- v5, inbox <- v6,
    builds <- v7, posting <- v8, writing <- v9, part <- v10, zip <- v11, fresh <- v12,
    cached <- v13, history <- v14
TwoPaths == INSTANCE OpenedFiles WITH Repos <- {One}, Public <- {One}, Branches <- {Three},
    Default <- Three, Paths <- Pair, MaxOpens <- 2, pushed <- v1, ever <- v2, doc <- v3,
    legacy <- v4, seen <- v5, trees <- v6, todo <- v7, opens <- v8, mine <- v9, cli <- v10,
    kept <- v11, crossed <- v12, rotten <- v13

ASSUME
  /\ Claims!IdentityAssumption /\ WithDecks!MaterialsAssumption
  /\ TwoPaths!OpenedAssumption

Init ==
  /\ \/ focus \in Limited \cup Recorded /\ Unused(0)
     \/ focus = "claims" /\ Claims!Init /\ Unused(12)
     \/ focus = "decks" /\ WithDecks!Init /\ Unused(14)
     \/ focus = "paths" /\ TwoPaths!Init /\ Unused(13)
  /\ LimitsInit /\ RecordsInit /\ moving = focus

\* One of the services with limits moves, one of those with records, or one of the others.
Next ==
  \/ focus \in Limited /\ UNCHANGED <<recordVars, ownVars>> /\ LimitsNext
  \/ focus \in Recorded /\ UNCHANGED <<limitVars, ownVars>> /\ RecordsNext
  \/ /\ UNCHANGED <<limitVars, recordVars>>
     /\ \/ focus = "claims" /\ Claims!Next /\ Kept(12)
        \/ focus = "decks" /\ WithDecks!Next /\ Kept(14)
        \/ focus = "paths" /\ TwoPaths!Next /\ Kept(13)

Spec == Init /\ [][Next]_vars

Symmetry == Permutations(Pair)

----------------------------------------------------------------------------
(* Properties: those of the components                                      *)

\* The variables of the component that moves have their types.
TypeOK ==
  /\ focus \in Limited => LimitsTypeOK
  /\ focus \in Recorded => RecordsTypeOK
  /\ focus = "claims" => Claims!TypeOK
  /\ focus = "decks" => WithDecks!TypeOK
  /\ focus = "paths" => TwoPaths!TypeOK

\* What is served is there, whole, and what it was made from or known not to be, archives have
\* the decks that fit, and what phones and tablets were shown is so: see Limits, OpenedFiles,
\* Identity and Materials.
ServedIsCurrent ==
  /\ focus \in Limited => ServedIsThere
  /\ focus = "paths" => TwoPaths!OpenedStays /\ TwoPaths!RelinkHeals
  /\ focus = "claims" => Claims!PhonesKnowTheNames /\ Claims!NobodyElseIsTrainer
  /\ focus = "decks" => WithDecks!ArchivesAreWhole /\ WithDecks!ArchivesAreOurs
                        /\ WithDecks!DecksFit
=============================================================================
