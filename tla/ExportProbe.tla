---------------------------- MODULE ExportProbe -----------------------------
(***************************************************************************)
(* The check that Drive can still export a deck that changed, and the alarm *)
(* on the trainer's machine (daemon/slides/export_probe.py).  Every change  *)
(* starts a thread and cancels the one before it.  After a grace period a   *)
(* probe is repeated for a while; the alarm is raised when none succeeds,   *)
(* and cleared by the first that does.  A probe takes less time than the    *)
(* grace period.                                                            *)
(***************************************************************************)
EXTENDS Integers, Sequences

CONSTANTS
  MaxProbes   \* bound on the changes

ProbeAssumption == MaxProbes \in Nat \ {0}

VARIABLES
  healthy,    \* Drive exports the deck
  workers,    \* per probe so far where its thread stands
  current,    \* _probes: the probe that is not cancelled, 0 = none
  alarming,   \* _alarming
  shown       \* the alarm of the add-on

vars == <<healthy, workers, current, alarming, shown>>

Probes == 1 .. Len(workers)
Stands(w, where) == workers[w] = where
Moves(w, to) == workers' = [workers EXCEPT ![w] = to]

\* schedule_probe.
Schedule ==
  /\ Len(workers) < MaxProbes
  /\ workers' = Append(workers, "grace") /\ current' = Len(workers) + 1
  /\ UNCHANGED <<healthy, alarming, shown>>

\* A cancelled thread ends where it waits; the entry of a newer probe is left alone.
Cancelled(w) ==
  /\ w # current /\ workers[w] \in {"grace", "trying", "watching"} /\ Moves(w, "ended")
  /\ UNCHANGED <<healthy, current, alarming, shown>>

\* The grace period is over: a cancelled thread has ended its last probe by now.
GraceEnds(w) ==
  /\ w = current /\ Stands(w, "grace") /\ \A v \in Probes : ~Stands(v, "failed")
  /\ Moves(w, "trying")
  /\ UNCHANGED <<healthy, current, alarming, shown>>

\* A probe fails when the time is over: the alarm comes next, cancelled or not.
TimeIsOver(w) ==
  /\ w = current /\ Stands(w, "trying") /\ ~healthy /\ Moves(w, "failed")
  /\ UNCHANGED <<healthy, current, alarming, shown>>

\* Rejected variant of Raise: the thread ends with the alarm.
RaiseAndEnd(w) ==
  /\ Stands(w, "failed") /\ Moves(w, "ended") /\ alarming' = TRUE /\ shown' = TRUE
  /\ current' = IF w = current THEN 0 ELSE current
  /\ UNCHANGED healthy

\* _raise_alarm; the thread goes on to probe.
Raise(w) ==
  /\ Stands(w, "failed") /\ Moves(w, "watching") /\ alarming' = TRUE /\ shown' = TRUE
  /\ UNCHANGED <<healthy, current>>

\* A probe succeeds: _clear_alarm, and the thread forgets itself.
Clear(w) ==
  /\ w = current /\ workers[w] \in {"trying", "watching"} /\ healthy
  /\ Moves(w, "ended") /\ current' = 0
  /\ alarming' = FALSE /\ shown' = (shown /\ ~alarming)
  /\ UNCHANGED healthy

DriveChanges == healthy' = ~healthy /\ UNCHANGED <<workers, current, alarming, shown>>

Init ==
  healthy \in BOOLEAN /\ workers = <<>> /\ current = 0 /\ alarming = FALSE /\ shown = FALSE

Next ==
  \/ Schedule \/ DriveChanges
  \/ \E w \in Probes :
       Cancelled(w) \/ GraceEnds(w) \/ TimeIsOver(w) \/ Raise(w) \/ Clear(w)

Spec == Init /\ [][Next]_vars

----------------------------------------------------------------------------
(* Properties                                                               *)

\* The variables have the types the code gives them.
TypeOK ==
  /\ healthy \in BOOLEAN /\ alarming \in BOOLEAN /\ shown \in BOOLEAN
  /\ current \in 0 .. Len(workers)
  /\ \A w \in Probes : workers[w] \in {"grace", "trying", "failed", "watching", "ended"}

\* An alarm on show is one the module knows of, and a thread that was not cancelled is there
\* to clear it, also when it was raised by a thread that was cancelled meanwhile.
AlarmIsWatched == shown => alarming /\ current # 0 /\ ~Stands(current, "ended")

----------------------------------------------------------------------------
(* The inductive invariant behind the theorems of LimitsProofs              *)

Standing == {"grace", "trying", "failed", "watching", "ended"}

\* The probe that is not cancelled has not ended, and a thread about to raise the alarm is
\* the only one: who was scheduled after it waits.
OneIsAboutTo ==
  /\ current # 0 => ~Stands(current, "ended")
  /\ \A w \in Probes : Stands(w, "failed") =>
       /\ current # 0 /\ (w # current => Stands(current, "grace"))
       /\ \A v \in Probes : Stands(v, "failed") => v = w

ProbeInv ==
  /\ workers \in Seq(Standing) /\ current \in 0 .. Len(workers)
  /\ healthy \in BOOLEAN /\ alarming \in BOOLEAN /\ shown \in BOOLEAN
  /\ OneIsAboutTo /\ AlarmIsWatched
=============================================================================
