---------------------------- MODULE Whereabouts ----------------------------
(***************************************************************************)
(* Where the participants are (daemon/participant/router.py): the location  *)
(* that a page sends, as coordinates, as a time zone or as free text, and   *)
(* the time zone and country that are looked up for it.  A look-up takes    *)
(* seconds and its answers are stored when they come; the host may have all *)
(* of them looked up again, a restart completes what is missing, and the    *)
(* browser reports its own time zone whenever it connects.                  *)
(***************************************************************************)
EXTENDS Integers, FiniteSets, Sequences, SequencesExt

CONSTANTS
  Pids, None,
  Coords, Zones, Texts,   \* what a page may send as its location
  MaxCalls                \* bound on the locations sent

WhereaboutsAssumption ==
  MaxCalls \in Nat \ {0} /\ IsFiniteSet(Pids) /\ None \notin Coords \cup Zones \cup Texts

Places == Coords \cup Zones \cup Texts

VARIABLES
  at,       \* locations: a place, and whether it is shown as the city found for it
  zone,     \* location_timezones: the place it is of
  country,  \* location_countries: the place it is of
  jobs,     \* look-ups under way
  backlog,  \* what a restart still has to complete
  calls,
  mixed     \* history: two look-ups of a participant overlapped, or one was cut short or failed

store == <<at, zone, country>>
vars == <<store, jobs, backlog, calls, mixed>>

Nowhere == [place |-> None, city |-> FALSE]

Put(f, p, v) == [f EXCEPT ![p] = v]

\* Something of the participant is still being looked up, or waits for it.
Busy(p) == (\E j \in jobs : j.pid = p) \/ \E i \in 1 .. Len(backlog) : backlog[i][1] = p

----------------------------------------------------------------------------
(* The calls                                                                *)

\* PUT location: stored as it is, and looked up.
SetLocation(p, place) ==
  /\ calls < MaxCalls /\ calls' = calls + 1
  /\ [pid |-> p, place |-> place, by |-> "page"] \notin jobs
  /\ at' = Put(at, p, [place |-> place, city |-> FALSE])
  /\ jobs' = jobs \cup {[pid |-> p, place |-> place, by |-> "page"]}
  /\ mixed' = (mixed \/ Busy(p))
  /\ UNCHANGED <<zone, country, backlog>>

\* A job that _resolve_location_metadata looks up: what it may bring.  Coordinates bring a zone
\* and a country with a city, each or neither; a zone brings itself and maybe its country; a
\* text brings nothing.
Found(place) ==
  [zone : IF place \in Coords THEN {place, None} ELSE IF place \in Zones THEN {place} ELSE {None},
   country : IF place \in Texts THEN {None} ELSE {place, None}]

\* Rejected variant of Answer: what is missing stays as it was.
AnswerKeeps(j, found) ==
  /\ j.by \in {"page", "host"} /\ jobs' = jobs \ {j}
  /\ at' = Put(at, j.pid, LET city == j.place \in Coords /\ found.country # None IN
                          IF j.by = "page" \/ city THEN [place |-> j.place, city |-> city]
                          ELSE at[j.pid])
  /\ zone' = Put(zone, j.pid, IF found.zone = None THEN zone[j.pid] ELSE found.zone)
  /\ country' = Put(country, j.pid, IF found.country = None THEN country[j.pid]
                                    ELSE found.country)
  /\ UNCHANGED <<backlog, calls, mixed>>

\* The answer of a page's or of the host's look-up is stored, what is missing is removed.
Answer(j, found) ==
  /\ j.by \in {"page", "host"} /\ jobs' = jobs \ {j}
  /\ at' = Put(at, j.pid, LET city == j.place \in Coords /\ found.country # None IN
                          IF j.by = "page" \/ city THEN [place |-> j.place, city |-> city]
                          ELSE at[j.pid])
  /\ zone' = Put(zone, j.pid, found.zone) /\ country' = Put(country, j.pid, found.country)
  /\ UNCHANGED <<backlog, calls, mixed>>

\* The look-up of a zone's country fails: the call ends there, with the location stored.
Fails(j) ==
  /\ j.place \in Zones /\ jobs' = jobs \ {j} /\ mixed' = TRUE
  /\ UNCHANGED <<store, backlog, calls>>

\* POST resolve-locations: coordinates are looked up, and zones without a country.
ResolveAll ==
  LET raw == {p \in Pids : at[p].place \in Coords /\ ~at[p].city}
      bare == {p \in Pids \ raw : at[p].place # None /\ zone[p] # None /\ country[p] = None}
      new == {[pid |-> p, place |-> at[p].place, by |-> "host"] : p \in raw}
             \cup {[pid |-> p, place |-> zone[p], by |-> "zone"] : p \in bare}
  IN /\ new # {} /\ new \cap jobs = {} /\ jobs' = jobs \cup new
     /\ mixed' = (mixed \/ \E k \in new : Busy(k.pid))
     /\ UNCHANGED <<store, backlog, calls>>

\* The country of a zone comes back.
AnswerZone(j, found) ==
  /\ j.by = "zone" /\ jobs' = jobs \ {j}
  /\ country' = IF found THEN Put(country, j.pid, j.place) ELSE country
  /\ UNCHANGED <<at, zone, backlog, calls, mixed>>

\* participant_presence: the zone of the browser, whatever the location is.
ApplyBrowserTz(p, tz) ==
  /\ zone[p] # tz /\ zone' = Put(zone, p, tz)
  /\ mixed' = (mixed \/ Busy(p))
  /\ UNCHANGED <<at, country, jobs, backlog, calls>>

\* purge_participant.
Purge(p) ==
  /\ at[p] # Nowhere \/ zone[p] # None
  /\ at' = Put(at, p, Nowhere) /\ zone' = Put(zone, p, None) /\ country' = Put(country, p, None)
  /\ mixed' = (mixed \/ Busy(p))
  /\ UNCHANGED <<jobs, backlog, calls>>

----------------------------------------------------------------------------
(* A restart                                                                *)

\* The snapshot is restored, and what it lacks is looked up, one participant after the other.
Restart ==
  /\ jobs' = {} /\ backlog' = SetToSeq({<<p, at[p]>> : p \in {q \in Pids : at[q] # Nowhere}})
  /\ mixed' = (mixed \/ jobs # {}) /\ UNCHANGED <<store, calls>>

\* The next of them: complete already, or looked up; only what is found is stored.
Backfill ==
  /\ backlog # <<>>
  /\ LET p == Head(backlog)[1]  loc == Head(backlog)[2] IN
     IF (zone[p] # None /\ country[p] # None /\ (loc.city \/ loc.place \notin Coords))
        \/ loc.city                                \* a city's name is looked up in vain
     THEN backlog' = Tail(backlog) /\ UNCHANGED <<jobs, mixed>>
     ELSE /\ \A j \in jobs : j.by # "start"
          /\ backlog' = Tail(backlog) /\ mixed' = (mixed \/ \E j \in jobs : j.pid = p)
          /\ jobs' = jobs \cup {[pid |-> p, place |-> loc.place, by |-> "start"]}
  /\ UNCHANGED <<store, calls>>

AnswerBackfill(j, found) ==
  /\ j.by = "start" /\ jobs' = jobs \ {j}
  /\ at' = IF j.place \in Coords /\ found.country # None
           THEN Put(at, j.pid, [place |-> j.place, city |-> TRUE]) ELSE at
  /\ zone' = IF found.zone # None THEN Put(zone, j.pid, found.zone) ELSE zone
  /\ country' = IF found.country # None THEN Put(country, j.pid, found.country) ELSE country
  /\ UNCHANGED <<backlog, calls, mixed>>

Init ==
  /\ at = [p \in Pids |-> Nowhere]
  /\ zone = [p \in Pids |-> None] /\ country = [p \in Pids |-> None]
  /\ jobs = {} /\ backlog = <<>> /\ calls = 0 /\ mixed = FALSE

Calling ==
  \/ \E p \in Pids : \/ \E place \in Places : SetLocation(p, place)
                     \/ \E tz \in Zones : ApplyBrowserTz(p, tz)
                     \/ Purge(p)
  \/ ResolveAll \/ Restart \/ Backfill

Answering ==
  \E j \in jobs : \/ Fails(j)
                  \/ \E found \in Found(j.place) : Answer(j, found) \/ AnswerBackfill(j, found)
                  \/ \E found \in BOOLEAN : AnswerZone(j, found)

Next == Calling \/ Answering

Spec == Init /\ [][Next]_vars

----------------------------------------------------------------------------
(* Properties                                                               *)

\* The variables have the types the code gives them.
TypeOK ==
  /\ at \in [Pids -> [place : Places \cup {None}, city : BOOLEAN]]
  /\ zone \in [Pids -> Coords \cup Zones \cup {None}]
  /\ country \in [Pids -> Coords \cup Zones \cup {None}]
  /\ \A j \in jobs : j.pid \in Pids /\ j.place \in Places

\* router.py:828-839: the country shown is that of the location, or of the time zone, of the
\* participant, and a purged one leaves nothing, as long as look-ups do not overlap.
CountryFits ==
  ~mixed => \A p \in Pids : (\A j \in jobs : j.pid # p) /\ country[p] # None =>
    /\ at[p].place # None
    /\ country[p] = at[p].place \/ country[p] \in Zones

----------------------------------------------------------------------------
(* Promises the code does not keep; TLC shows how                           *)

\* :828-831: what the page sent last is what is stored once every look-up has ended.
CountryAlwaysFits ==
  \A p \in Pids : (\A j \in jobs : j.pid # p) /\ country[p] # None =>
    /\ at[p].place # None
    /\ country[p] = at[p].place \/ country[p] \in Zones

----------------------------------------------------------------------------
(* The inductive invariant behind the theorems of Records                   *)

PlacesTypeOK ==
  /\ at \in [Pids -> [place : Places \cup {None}, city : BOOLEAN]]
  /\ \A p \in Pids : at[p].place = None => ~at[p].city
  /\ zone \in [Pids -> Coords \cup Zones \cup {None}]
  /\ country \in [Pids -> Coords \cup Zones \cup {None}]
  /\ jobs \subseteq [pid : Pids, place : Places, by : {"page", "host", "start", "zone"}]
  /\ \A j \in jobs : j.by = "zone" => j.place \in Coords \cup Zones
  /\ backlog \in Seq(Pids \X [place : Places, city : BOOLEAN])
  /\ mixed \in BOOLEAN

\* What is known of a participant's place is of the location, or of a time zone.
Fits(known, p) == known = at[p].place \/ known \in Zones

\* As long as look-ups do not overlap, each is of the location, or of a time zone, of somebody
\* who has a location; and whoever's page is not being answered is known as the location says.
AnswersFit ==
  ~mixed =>
    /\ \A j \in jobs : /\ at[j.pid].place # None
                       /\ j.place = at[j.pid].place \/ (j.by = "zone" /\ j.place \in Zones)
    /\ \A i \in 1 .. Len(backlog) : backlog[i][2].place = at[backlog[i][1]].place
    /\ \A p \in Pids : (\A j \in jobs : j.pid = p => j.by # "page") =>
         /\ zone[p] # None => Fits(zone[p], p)
         /\ country[p] # None => at[p].place # None /\ Fits(country[p], p)

WhereInv == PlacesTypeOK /\ AnswersFit
=============================================================================
