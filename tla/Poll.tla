-------------------------------- MODULE Poll --------------------------------
(***************************************************************************)
(* The poll of the daemon (daemon/poll/state.py, daemon/poll/router.py):    *)
(* the host's draft, the running poll, the stopped poll with its results,   *)
(* the ballots, the cached tally and what the phones are shown of it.       *)
(*                                                                         *)
(* A handler is one action, but for the start: it waits for the host's link *)
(* between the change and the push to the phones, and other handlers run.   *)
(* The others wait only once the phones have been told.  Question and       *)
(* option texts are one Boolean: may the draft be started?  No draft is a   *)
(* draft without options.  host_extras are left out: nothing calls          *)
(* set_host_totals, they stay zero.                                         *)
(***************************************************************************)
EXTENDS Activity, Sequences

CONSTANTS
  Pids,         \* participants, by uuid
  MaxOptions,   \* options a draft has at most
  MaxNamed,     \* bound: indices in one ballot, which may repeat one
  MaxStarts     \* bound: start handlers that wait for the host at a time

PollAssumption ==
  /\ MaxOptions \in Nat \ {0} /\ MaxNamed \in Nat \ {0} /\ MaxStarts \in Nat \ {0}
  /\ IsFiniteSet(Pids)

VARIABLES
  poll,       \* PollData: [n |-> options, multi, public, ready]
  started,    \* PollState.started
  ended,      \* ended_at is not None
  votes,      \* the option_indices of each participant, in order; empty = no entry
  cache,      \* _vote_counts_cache, or Dirty
  shown,      \* the counts of the last poll_updated the phones got, or Hidden
  lagging,    \* history: votes changed since by a step that tells nobody
  opening     \* start handlers that wait for the host before they push

pollVars == <<poll, started, ended, votes, cache, shown, lagging, opening>>
vars == <<pollVars, activityVars>>

Options == 1 .. MaxOptions
Drafts == [n : 0 .. MaxOptions, multi : BOOLEAN, public : BOOLEAN, ready : BOOLEAN]
NoDraft == [n |-> 0, multi |-> FALSE, public |-> FALSE, ready |-> FALSE]
Ballots == UNION {[1 .. k -> Options] : k \in 0 .. MaxNamed}
NoVotes == [p \in Pids |-> <<>>]
Dirty == <<>>           \* no counts: to be computed when they are asked for
Hidden == "hidden"

\* participant_vote_counts, and with host_extras at zero the whole tally: a ballot counts
\* once for every index it names, an index it repeats included.
Tally(v, d) ==
  [i \in 1 .. d.n |->
    Cardinality({x \in Pids \X (1 .. MaxNamed) :
                   x[2] \in 1 .. Len(v[x[1]]) /\ v[x[1]][x[2]] = i})]

\* vote_counts: the cached counts unless they are dirty.
VoteCounts(known) == IF known = Dirty THEN Tally(votes', poll') ELSE known

\* _push_poll_state: the counts go to the phones of a public or ended poll.
Push(known) ==
  /\ cache' = VoteCounts(known)
  /\ shown' = IF poll'.public \/ ended' THEN cache' ELSE Hidden
  /\ lagging' = FALSE

\* What a handler does that invalidates the counts, and then pushes or does not.
Recount(push) ==
  IF push THEN Push(Dirty) ELSE cache' = Dirty /\ UNCHANGED <<shown, lagging>>

----------------------------------------------------------------------------
(* Host: draft, start, stop, clear                                          *)

\* A flip from several options to one keeps only the ballots that name one, once.
AfterFlip(d) ==
  IF started /\ poll.multi /\ ~d.multi
  THEN [p \in Pids |-> IF Len(votes[p]) = 1 THEN votes[p] ELSE <<>>]
  ELSE votes

\* Rejected variant of UpdatePoll: results on show may be edited.
UpdatePollEvenEnded(d) ==
  /\ started => d.n >= poll.n
  /\ poll' = d /\ votes' = AfterFlip(d)
  /\ UNCHANGED <<started, ended, opening, activityVars>>
  /\ Recount(started)

\* Rejected variant of UpdatePoll: the cached tally is not invalidated.
UpdatePollKeepsCache(d) ==
  /\ ~ended
  /\ started => d.n >= poll.n
  /\ poll' = d /\ votes' = AfterFlip(d)
  /\ UNCHANGED <<started, ended, opening, activityVars>>
  /\ IF started THEN Push(cache) ELSE UNCHANGED <<cache, shown, lagging>>

\* PUT poll/update; refused with 409 when the poll has ended, or when it would take
\* an option from a running poll.
UpdatePoll(d) ==
  /\ ~ended
  /\ started => d.n >= poll.n
  /\ poll' = d /\ votes' = AfterFlip(d)
  /\ UNCHANGED <<started, ended, opening, activityVars>>
  /\ Recount(started)

\* POST poll/start: also starts a stopped or a running poll afresh.  It tells the phones
\* that a poll opened, then waits for the host.
StartPoll ==
  /\ opening < MaxStarts
  /\ poll.ready /\ poll.n >= 2
  /\ started' = TRUE /\ ended' = FALSE /\ votes' = NoVotes /\ cache' = Dirty
  /\ opening' = opening + 1
  /\ UNCHANGED <<poll, shown, lagging>> /\ Route("poll")

\* The host was told: the rest of start_poll, whatever was done in the meantime.
Opened ==
  /\ opening > 0 /\ opening' = opening - 1
  /\ UNCHANGED <<poll, started, ended, votes, activityVars>>
  /\ IF poll = NoDraft THEN UNCHANGED <<cache, shown, lagging>> ELSE Push(cache)

\* POST poll/stop; it also "ends" a draft that never ran.
StopPoll ==
  /\ started' = FALSE /\ ended' = TRUE
  /\ UNCHANGED <<poll, votes, opening, activityVars>>
  /\ Recount(poll # NoDraft)

ResetPoll ==
  /\ poll' = NoDraft /\ started' = FALSE /\ ended' = FALSE
  /\ votes' = NoVotes /\ cache' = Dirty
  /\ UNCHANGED <<shown, lagging, opening>>

\* POST poll/clear: tells everybody "none", whatever is current, and makes it so only
\* if the poll was running.
ClearPoll ==
  /\ ResetPoll
  /\ activity' = IF started /\ activity = "poll" THEN "none" ELSE activity
  /\ announced' = "none"

----------------------------------------------------------------------------
(* Participants                                                             *)

\* Rejected variant of Accepted: a stopped poll still takes ballots.
AcceptedLate(b) ==
  /\ started \/ ended
  /\ \A k \in 1 .. Len(b) : b[k] \in 1 .. poll.n
  /\ poll.multi \/ Len(b) <= 1

\* What cast_vote takes: options of the poll, also one twice, and one in single mode.
Accepted(b) ==
  /\ started
  /\ \A k \in 1 .. Len(b) : b[k] \in 1 .. poll.n
  /\ poll.multi \/ Len(b) <= 1

\* Rejected variant of CastVote: the cached tally is not invalidated.
CastVoteKeepsCache(p, b) ==
  /\ Accepted(b)
  /\ votes' = [votes EXCEPT ![p] = b]
  /\ UNCHANGED <<poll, started, ended, opening, activityVars>>
  /\ Push(cache)

\* POST poll/vote: the last ballot counts, an empty one is withdrawn; any other than an
\* accepted one is refused with 409.
CastVote(p, b) ==
  /\ Accepted(b)
  /\ votes' = [votes EXCEPT ![p] = b]
  /\ UNCHANGED <<poll, started, ended, opening, activityVars>>
  /\ Push(Dirty)

\* GET participant/state or host/poll: fills the cache of the counts it may show.
FetchState ==
  /\ poll # NoDraft
  /\ cache = Dirty /\ cache' = Tally(votes, poll)
  /\ UNCHANGED <<poll, started, ended, votes, shown, lagging, opening, activityVars>>

----------------------------------------------------------------------------
(* The rest of the daemon                                                   *)

\* purge_participant takes the ballot back, and pushes nothing.
Purge(p) ==
  /\ votes' = [votes EXCEPT ![p] = <<>>] /\ cache' = Dirty
  /\ lagging' = (lagging \/ votes[p] # <<>>)
  /\ UNCHANGED <<poll, started, ended, shown, opening, activityVars>>

\* Another session is entered: reset, with nothing in its file.
EnterSession ==
  /\ ResetPoll
  /\ activity' = "none" /\ UNCHANGED announced

\* The daemon restarts.  The snapshot it saved had the poll in it, but the model of the file
\* drops the key "poll" of whatever also has the key "quiz", and the snapshot always has.
Restart ==
  /\ poll' = NoDraft /\ started' = FALSE /\ ended' = FALSE
  /\ votes' = NoVotes /\ cache' = Dirty /\ lagging' = TRUE /\ opening' = 0
  /\ UNCHANGED shown /\ ActivityRestored

Init ==
  /\ poll = NoDraft /\ started = FALSE /\ ended = FALSE /\ votes = NoVotes
  /\ cache = Dirty /\ shown = Hidden /\ lagging = FALSE /\ opening = 0
  /\ ActivityInit

Next ==
  \/ \E d \in Drafts : UpdatePoll(d)
  \/ StartPoll
  \/ Opened
  \/ StopPoll
  \/ ClearPoll
  \/ \E p \in Pids, b \in Ballots : CastVote(p, b)
  \/ FetchState
  \/ \E p \in Pids : Purge(p)
  \/ EnterSession
  \/ Restart
  \/ \E a \in {"none", "poll", "debate"} : SetActivity(a) /\ UNCHANGED pollVars

Spec == Init /\ [][Next]_vars

----------------------------------------------------------------------------
(* Properties                                                               *)

\* The variables have the types the code gives them.
TypeOK ==
  /\ poll \in Drafts /\ started \in BOOLEAN /\ ended \in BOOLEAN
  /\ votes \in [Pids -> Ballots]
  /\ cache = Dirty \/ cache \in [1 .. poll.n -> 0 .. Cardinality(Pids) * MaxNamed]
  /\ lagging \in BOOLEAN /\ opening \in 0 .. MaxStarts
  /\ ActivityTypeOK

\* Whatever the host edited, stopped, cleared or restarted in between, every ballot that
\* is kept is one the poll on show could have taken: options it has, one in single mode.
BallotsFit ==
  /\ \A p \in Pids : \A k \in 1 .. Len(votes[p]) : votes[p][k] \in 1 .. poll.n
  /\ ~poll.multi => \A p \in Pids : Len(votes[p]) <= 1
  /\ (\E p \in Pids : votes[p] # <<>>) => started \/ ended

\* The cached tally, when it is used, is the tally of the ballots.
CacheIsTally == cache # Dirty => cache = Tally(votes, poll)

\* While a poll runs the phones see its tally if it is public, and no counts (not even
\* those of an earlier, public, poll) if it is private; once its start has come back from
\* the host, and until a ballot is purged.
PhonesSeeTheTally ==
  started /\ ~lagging /\ opening = 0
    => shown = IF poll.public THEN Tally(votes, poll) ELSE Hidden

\* The results on show after a stop stay what they were until the poll is started,
\* cleared or left, but for the ballots of the purged.
ResultsStand ==
  [][ended /\ ended' /\ ~started' => /\ poll' = poll
       /\ \A p \in Pids : votes'[p] = votes[p] \/ Purge(p)]_vars

----------------------------------------------------------------------------
(* A promise the code does not keep; TLC shows how                          *)

\* persisted_models.py:61, "Poll snapshot persisted in session-state.json": a running poll
\* ends when the host stops it, clears it or leaves the session.
PollSurvives ==
  [][started /\ ~started' => StopPoll \/ ClearPoll \/ EnterSession]_vars

----------------------------------------------------------------------------
(* The inductive invariant behind the theorems of ActivitiesProofs          *)

PollTypeOK ==
  /\ poll \in Drafts /\ votes \in [Pids -> Ballots]
  /\ cache = Dirty \/ cache \in [1 .. poll.n -> 0 .. Cardinality(Pids) * MaxNamed]
FlagsTypeOK ==
  /\ started \in BOOLEAN /\ ended \in BOOLEAN /\ lagging \in BOOLEAN
  /\ opening \in 0 .. MaxStarts

\* A poll that runs has not ended, and has options.
RunsOrEnded == started => ~ended /\ poll.n > 0
ShownInv == RunsOrEnded /\ CacheIsTally /\ PhonesSeeTheTally

PollInv == PollTypeOK /\ FlagsTypeOK /\ BallotsFit /\ ShownInv
=============================================================================
