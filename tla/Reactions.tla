----------------------------- MODULE Reactions ------------------------------
(***************************************************************************)
(* Emoji reactions and the attention bell with their limits                 *)
(* (daemon/emoji/router.py, daemon/emoji/rate_limit.py,                     *)
(* daemon/attention/router.py) and the limit of the gateway on the requests *)
(* of one address (railway/shared/rate_limit.py).  A sliding window per     *)
(* participant and control; one bucket of tokens for the reactions of the   *)
(* whole room, and one like it per address.  What becomes of a reaction     *)
(* that passes (overlay, host page, counters) is left out.                  *)
(***************************************************************************)
EXTENDS Integers, FiniteSets, Sequences

CONSTANTS
  Pids,
  Quota,     \* EMOJI_RATE_LIMIT, BELL_RATE_LIMIT
  Window,    \* their window, in ticks
  Burst,     \* EMOJI_GLOBAL_BURST, RATE_LIMIT_CAPACITY
  Rate,      \* tokens per tick
  Look       \* ticks the history of the bucket looks back

ReactionsAssumption ==
  {Quota, Window, Burst, Rate, Look} \subseteq Nat \ {0}

Controls == {"emoji", "bell"}

VARIABLES
  allowed,   \* emoji_global_enabled and attention_enabled
  hits,      \* _hits: per control and participant the ages of the hits, oldest first
  tokens,    \* what the bucket holds
  took,      \* history: the ages of the last Quota + 1 hits that were let through, oldest first
  passed     \* history: how many the bucket let through in the last 1, 2, ... ticks

vars == <<allowed, hits, tokens, took, passed>>

\* Rejected variant of Pruned: the oldest hit decides.
PrunedByOldest(h) == IF h = <<>> \/ h[1] >= Window THEN <<>> ELSE h

\* SlidingWindowRateLimiter.allow first drops who has been silent for a window, and of the
\* asking participant what is older than it.
Pruned(h) == IF h = <<>> \/ h[Len(h)] >= Window THEN <<>> ELSE h

Expired(h) == Cardinality({i \in 1 .. Len(h) : h[i] >= Window})
InWindow(h) == SubSeq(h, Expired(h) + 1, Len(h))

\* Whether the limiter lets a hit through, and what is left of the hits of all.
Room(c, p) == Len(InWindow(Pruned(hits[c][p]))) < Quota

Noted(c, p, hit) ==
  [hits EXCEPT ![c] =
     [q \in Pids |-> LET h == Pruned(@[q]) IN
        IF q # p THEN h ELSE InWindow(h) \o hit]]

\* The newest of the hits that were let through.
Recent(t) == IF Len(t) > Quota THEN Tail(t) ELSE t

Hit(c, p) ==
  IF Room(c, p)
  THEN /\ hits' = Noted(c, p, <<0>>)
       /\ took' = [took EXCEPT ![c][p] = Append(Recent(@), 0)]
  ELSE hits' = Noted(c, p, <<>>) /\ UNCHANGED took

\* TokenBucket.allow.
TakeToken ==
  IF tokens > 0
  THEN tokens' = tokens - 1 /\ passed' = [d \in 1 .. Look |-> passed[d] + 1]
  ELSE UNCHANGED <<tokens, passed>>

\* POST participant/emoji/reaction: the participant's limit first, then the room's, so who
\* is over the own limit costs the room nothing.
React(p) ==
  /\ allowed["emoji"] /\ Hit("emoji", p)
  /\ IF Room("emoji", p) THEN TakeToken ELSE UNCHANGED <<tokens, passed>>
  /\ UNCHANGED allowed

\* ... of the host page, on its own machine: only the room's limit.
HostReacts == allowed["emoji"] /\ TakeToken /\ UNCHANGED <<allowed, hits, took>>

\* POST participant/bell.
Ring(p) == allowed["bell"] /\ Hit("bell", p) /\ UNCHANGED <<allowed, tokens, passed>>

\* POST host/emoji/global-toggle and host/attention/global-toggle.
Toggle(c) ==
  /\ allowed' = [allowed EXCEPT ![c] = ~@]
  /\ UNCHANGED <<hits, tokens, took, passed>>

Silent == [c \in Controls |-> [p \in Pids |-> <<>>]]

\* ParticipantState.reset: the limiters of both controls, not the bucket of the room.
NewSession ==
  /\ allowed' = [c \in Controls |-> c = "emoji"]
  /\ hits' = Silent /\ took' = Silent
  /\ UNCHANGED <<tokens, passed>>

\* Rejected variant of Refilled: the bucket fills without end.
RefilledOver(t) == t + Rate

\* TokenBucket.allow adds what has flowed in since, up to the burst.
Refilled(t) == IF t + Rate < Burst THEN t + Rate ELSE Burst

Older(ages) == [i \in 1 .. Len(ages) |-> IF ages[i] < Window THEN ages[i] + 1 ELSE Window]

Tick ==
  /\ hits' = [c \in Controls |-> [p \in Pids |-> Older(hits[c][p])]]
  /\ took' = [c \in Controls |-> [p \in Pids |-> Older(took[c][p])]]
  /\ tokens' = Refilled(tokens)
  /\ passed' = [d \in 1 .. Look |-> IF d = 1 THEN 0 ELSE passed[d - 1]]
  /\ UNCHANGED allowed

Init ==
  /\ allowed = [c \in Controls |-> c = "emoji"]
  /\ hits = Silent /\ took = Silent
  /\ tokens = Burst /\ passed = [i \in 1 .. Look |-> 0]

Next ==
  \/ \E p \in Pids : React(p) \/ Ring(p)
  \/ HostReacts \/ NewSession \/ Tick
  \/ \E c \in Controls : Toggle(c)

Spec == Init /\ [][Next]_vars

----------------------------------------------------------------------------
(* Properties                                                               *)

\* The variables have the types the code gives them.
TypeOK ==
  /\ allowed \in [Controls -> BOOLEAN]
  /\ hits \in [Controls -> [Pids -> Seq(0 .. Window)]]
  /\ \A c \in Controls, p \in Pids : Len(hits[c][p]) <= Quota
  /\ tokens \in 0 .. Burst /\ passed \in [1 .. Look -> Nat]

\* Never more than Quota of one participant within any window, whatever the clean-up of the
\* others' hits drops: Quota hits later, a window has passed.  And of the room no more than a
\* burst and what time has refilled.
LimitsHold ==
  /\ \A c \in Controls, p \in Pids : Len(took[c][p]) > Quota => took[c][p][1] >= Window
  /\ \A d \in 1 .. Look : passed[d] <= Burst + Rate * (d - 1)

----------------------------------------------------------------------------
(* The inductive invariant behind the theorems of LimitsProofs              *)

\* Ages of hits, oldest first.
Ages(s) ==
  /\ s \in Seq(0 .. Window)
  /\ \A i, k \in 1 .. Len(s) : i <= k => s[i] >= s[k]

\* A hit let through within the window is among the limiter's, counted from the newest.
Covers(h, t) ==
  \A n \in 0 .. Quota :
    n < Len(t) /\ t[Len(t) - n] < Window =>
      n < Len(h) /\ h[Len(h) - n] = t[Len(t) - n]

WindowsInv ==
  /\ hits \in [Controls -> [Pids -> Seq(0 .. Window)]]
  /\ took \in [Controls -> [Pids -> Seq(0 .. Window)]]
  /\ \A c \in Controls, p \in Pids :
       /\ Ages(hits[c][p]) /\ Len(hits[c][p]) <= Quota
       /\ Ages(took[c][p]) /\ Len(took[c][p]) <= Quota + 1
       /\ Covers(hits[c][p], took[c][p])
       /\ Len(took[c][p]) > Quota => took[c][p][1] >= Window

\* What the bucket has and what it gave is what it had and what flowed in.
BucketInv ==
  /\ tokens \in 0 .. Burst /\ passed \in [1 .. Look -> Nat]
  /\ \A d \in 1 .. Look : tokens + passed[d] <= Burst + Rate * (d - 1)

ReactionsInv == WindowsInv /\ BucketInv
=============================================================================
