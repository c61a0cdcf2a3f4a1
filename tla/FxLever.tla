------------------------------ MODULE FxLever -------------------------------
(***************************************************************************)
(* The sound effects button that the host grants to participants: one lever *)
(* for the whole room with one cooldown (daemon/fx/router.py), over the     *)
(* client of the soundboard (daemon/effects_client.py; its ping, which only *)
(* colours the button, is left out).  A press passes the brakes, reads the  *)
(* catalog, presses and notes the time; the catalog and the press are       *)
(* awaited in threads, and the other handlers run meanwhile.                *)
(***************************************************************************)
EXTENDS Integers, FiniteSets

CONSTANTS
  Pids,
  Host,         \* the Test button of the host page
  None,
  Tiles,        \* numbers one may bind the button to
  Cooldowns,    \* seconds, as ticks
  MaxPresses    \* bound on the presses of one participant

LeverAssumption ==
  /\ Cooldowns \subseteq Nat /\ \E c \in Cooldowns : \A d \in Cooldowns : d <= c
  /\ Host \notin Pids /\ None \notin Nat /\ MaxPresses \in Nat \ {0}

Longest == CHOOSE c \in Cooldowns : \A d \in Cooldowns : d <= c
Never == Longest

VARIABLES
  enabled, granted, tile, cooldown,   \* fx_enabled, fx_granted_pids, fx_tile_n, fx_cooldown_seconds
  fired,      \* ticks since fx_last_fired_mono; None: never in this process
  lastOk,     \* fx_last_press_ok: TRUE, FALSE or None
  counts,     \* fx_press_counts
  presses,    \* presses on their way: who, which tile, and whether the catalog is read
  heard,      \* history: ticks since the room last heard a participant's press, Never = long
  crossed     \* history: two participants' presses overlapped, or the cooldown was changed

switchVars == <<enabled, granted, tile, cooldown>>
outcomeVars == <<fired, lastOk, counts, heard>>
vars == <<switchVars, outcomeVars, presses, crossed>>

\* cooldown_remaining() > 0.
Cooling == fired # None /\ fired < cooldown

\* Rejected variant of Fire: the cooldown is left to the page.
FireAnyTime(p) ==
  /\ p \in granted /\ enabled
  /\ counts[p] < MaxPresses /\ \A q \in presses : q.who # p
  /\ presses' = presses \cup {[who |-> p, tile |-> tile, read |-> FALSE]}
  /\ crossed' = (crossed \/ \E q \in presses : q.who # Host)
  /\ UNCHANGED <<switchVars, outcomeVars>>

\* POST participant/fx/fire: not granted, disabled and cooling are refused in this order, and
\* the catalog is asked for.
Fire(p) ==
  /\ p \in granted /\ enabled /\ ~Cooling
  /\ counts[p] < MaxPresses /\ \A q \in presses : q.who # p
  /\ presses' = presses \cup {[who |-> p, tile |-> tile, read |-> FALSE]}
  /\ crossed' = (crossed \/ \E q \in presses : q.who # Host)
  /\ UNCHANGED <<switchVars, outcomeVars>>

\* POST host/fx/test: past every brake.
Test ==
  /\ \A q \in presses : q.who # Host
  /\ presses' = presses \cup {[who |-> Host, tile |-> tile, read |-> FALSE]}
  /\ UNCHANGED <<switchVars, outcomeVars, crossed>>

\* find_tile: the catalog has the tile, or it has not or cannot be read ("no-tile").
CatalogKnows(q) ==
  /\ ~q.read
  /\ presses' = (presses \ {q}) \cup {[q EXCEPT !.read = TRUE]}
  /\ UNCHANGED <<switchVars, outcomeVars, crossed>>

CatalogDoesNot(q) ==
  /\ ~q.read /\ presses' = presses \ {q}
  /\ UNCHANGED <<switchVars, outcomeVars, crossed>>

\* press_tile answers yes: the time, the count and the outcome are noted; of a test, only
\* the outcome.
Sounds(q) ==
  /\ q.read /\ presses' = presses \ {q} /\ lastOk' = TRUE
  /\ IF q.who = Host
     THEN UNCHANGED <<fired, counts, heard>>
     ELSE /\ fired' = 0 /\ heard' = 0
          /\ counts' = [counts EXCEPT ![q.who] = @ + 1]
  /\ UNCHANGED <<switchVars, crossed>>

\* ... no: no cooldown for a press that was not heard.
Fails(q) ==
  /\ q.read /\ presses' = presses \ {q} /\ lastOk' = FALSE
  /\ UNCHANGED <<switchVars, fired, counts, heard, crossed>>

\* The host's switches: toggle, grant, revoke, grant-all, revoke-all, tile and cooldown.
Toggle ==
  /\ enabled' = ~enabled
  /\ UNCHANGED <<granted, tile, cooldown, outcomeVars, presses, crossed>>

Grant(who) ==
  /\ granted' = granted \cup who
  /\ UNCHANGED <<enabled, tile, cooldown, outcomeVars, presses, crossed>>

\* ... the counts stay.
Revoke(who) ==
  /\ granted' = granted \ who
  /\ UNCHANGED <<enabled, tile, cooldown, outcomeVars, presses, crossed>>

SetTile(t) ==
  /\ tile' = t
  /\ UNCHANGED <<enabled, granted, cooldown, outcomeVars, presses, crossed>>

SetCooldown(c) ==
  /\ cooldown' = c /\ crossed' = TRUE
  /\ UNCHANGED <<enabled, granted, tile, outcomeVars, presses>>

\* A restart of the daemon: the switches and the counts were persisted with every change of
\* theirs, the monotonic clock is not kept and the calls in flight are gone.
Restart ==
  /\ fired' = None /\ lastOk' = None /\ presses' = {}
  /\ crossed' = TRUE
  /\ UNCHANGED <<switchVars, counts, heard>>

\* A fresh session: ParticipantState.reset.
NewSession ==
  /\ enabled' = TRUE /\ granted' = {} /\ cooldown' = Longest
  /\ fired' = None /\ lastOk' = None
  /\ counts' = [p \in Pids |-> 0]
  /\ crossed' = TRUE
  /\ UNCHANGED <<tile, presses, heard>>

Older(age, cap) == IF age < cap THEN age + 1 ELSE age

Tick ==
  /\ fired' = IF fired = None THEN None ELSE Older(fired, Longest)
  /\ heard' = Older(heard, Never)
  /\ UNCHANGED <<switchVars, lastOk, counts, presses, crossed>>

Init ==
  /\ enabled = TRUE /\ granted = {} /\ tile \in Tiles /\ cooldown = Longest
  /\ fired = None /\ lastOk = None /\ counts = [p \in Pids |-> 0] /\ presses = {}
  /\ heard = Never /\ crossed = FALSE

Pressing ==
  \/ \E p \in Pids : Fire(p)
  \/ Test
  \/ \E q \in presses : CatalogKnows(q) \/ CatalogDoesNot(q) \/ Sounds(q) \/ Fails(q)

Switching ==
  \/ Toggle
  \/ \E p \in Pids : Grant({p}) \/ Revoke({p})
  \/ Grant(Pids) \/ Revoke(Pids)
  \/ \E t \in Tiles : SetTile(t)
  \/ \E c \in Cooldowns : SetCooldown(c)

Next == Pressing \/ Switching \/ Restart \/ NewSession \/ Tick

Spec == Init /\ [][Next]_vars

----------------------------------------------------------------------------
(* Properties                                                               *)

Known(q) == q \in [who : Pids \cup {Host}, tile : Tiles, read : BOOLEAN]

\* The variables have the types the code gives them.
TypeOK ==
  /\ enabled \in BOOLEAN /\ granted \subseteq Pids /\ tile \in Tiles /\ cooldown \in Cooldowns
  /\ fired \in 0 .. Longest \cup {None} /\ lastOk \in {TRUE, FALSE, None}
  /\ counts \in [Pids -> Nat] /\ \A q \in presses : Known(q)
  /\ crossed \in BOOLEAN
  /\ heard \in 0 .. Never

\* The brake of the room: while a press goes out, the one heard before is a cooldown away,
\* whoever pressed it, as long as presses do not overlap; failures, tests, grants and tile
\* changes make no difference.
RoomIsSpared ==
  ~crossed => \A q \in presses : q.who # Host => heard >= cooldown

----------------------------------------------------------------------------
(* Promises the code does not keep; TLC shows how                           *)

\* router.py:128-131, "ONE lever for the whole room", also of two people at once.
OneLever ==
  fired # None =>
    \A q \in presses : q.who # Host /\ cooldown = Longest => fired >= cooldown

\* fx/router.py:89, "The whole access check": no press of one whose grant is gone.
OnlyTheGranted == \A q \in presses : q.who # Host => q.who \in granted

----------------------------------------------------------------------------
(* The inductive invariant behind the theorems of LimitsProofs              *)

\* Until presses of two overlap, the daemon's clock is the room's: it knows of the press
\* heard last, and one at a time is on its way.
ClockIsTheRooms ==
  ~crossed => /\ IF fired = None THEN heard = Never ELSE heard = fired
              /\ \A q, r \in presses : q.who # Host /\ r.who # Host => q = r

LeverInv ==
  /\ cooldown \in Cooldowns /\ fired \in 0 .. Longest \cup {None} /\ heard \in 0 .. Never
  /\ presses \subseteq [who : Pids \cup {Host}, tile : Tiles, read : BOOLEAN]
  /\ tile \in Tiles /\ crossed \in BOOLEAN
  /\ ClockIsTheRooms /\ RoomIsSpared
=============================================================================
