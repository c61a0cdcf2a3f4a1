------------------------------ MODULE Throttle ------------------------------
(***************************************************************************)
(* The two throttles that keep a full room from flooding the daemon and    *)
(* the phones: LoopThrottle of the daemon (daemon/throttle.py; the host's  *)
(* roster and the count of active participants,                            *)
(* daemon/participant/fanout.py) and AsyncThrottle                         *)
(* (railway/shared/throttle.py; the gateway's participant updates and the  *)
(* emoji counters).  A push sends what is live when it starts.  Time goes  *)
(* on in ticks; what the loop has decided to run it runs within the tick:  *)
(* its iterations are short beside the interval.                           *)
(***************************************************************************)
EXTENDS Integers

CONSTANTS
  Interval,   \* ticks between two runs
  MaxPending  \* bound on requests of other threads and on tasks not yet begun

ThrottleAssumption == Interval \in Nat \ {0} /\ MaxPending \in Nat \ {0}

VARIABLES
  kind,     \* "loop" or "async"
  up,       \* the event loop runs
  since,    \* ticks since _last_run, Interval = that long ago or more
  timer,    \* ticks until the booked trailing run, -1 = none booked
  posted,   \* call_soon_threadsafe: requests of the main thread on their way to the loop
  spawned,  \* tasks that will run the callback
  dirty,    \* something changed since the last push read it
  quiet     \* history: ticks since the last push of the loop began, Interval = or more

vars == <<kind, up, since, timer, posted, spawned, dirty, quiet>>

\* The callback reads the live state and sends it.
Pushed == dirty' = FALSE /\ quiet' = 0

\* LoopThrottle._claim: a booked run will do; else run now or book one.
Claim(runNow, wait) ==
  \/ timer >= 0 /\ UNCHANGED <<since, timer>> /\ wait
  \/ timer < 0 /\ since = Interval /\ since' = 0 /\ UNCHANGED timer /\ runNow
  \/ timer < 0 /\ since < Interval /\ timer' = Interval - since /\ UNCHANGED since /\ wait

\* A handler on the loop changes something and requests a push: request(), which runs it at
\* once, in the same iteration.
HandlerRequests ==
  /\ kind = "loop" /\ up
  /\ Claim(Pushed, dirty' = TRUE /\ UNCHANGED quiet)
  /\ UNCHANGED <<kind, up, posted, spawned>>

\* The main thread changes something.  While the loop is not running the count goes out
\* directly: request_active_count_broadcast.
ThreadRequests ==
  /\ kind = "loop"
  /\ IF up
     THEN posted < MaxPending /\ posted' = posted + 1 /\ dirty' = TRUE
     ELSE UNCHANGED posted /\ dirty' = FALSE
  /\ UNCHANGED <<kind, up, since, timer, spawned, quiet>>

\* _request_on_loop.
Arrive ==
  /\ posted > 0 /\ posted' = posted - 1
  /\ Claim(spawned' = spawned + 1, UNCHANGED spawned)
  /\ UNCHANGED <<kind, up, dirty, quiet>>

\* AsyncThrottle.schedule: the time of the run is noted when it begins, not here.
Schedule ==
  /\ kind = "async" /\ dirty' = TRUE
  /\ \/ /\ since = Interval /\ spawned < MaxPending /\ spawned' = spawned + 1
        /\ UNCHANGED timer
     \/ since < Interval /\ timer < 0 /\ timer' = Interval - since /\ UNCHANGED spawned
     \/ since < Interval /\ timer >= 0 /\ UNCHANGED <<timer, spawned>>
  /\ UNCHANGED <<kind, up, since, posted, quiet>>

\* Rejected variant of OnTimer: a run that was booked is not made.
OnTimerForgets ==
  /\ timer = 0 /\ timer' = -1 /\ UNCHANGED <<spawned, since>>
  /\ UNCHANGED <<kind, up, posted, dirty, quiet>>

\* The booked run is due: _on_timer, or the lambda of call_later.
OnTimer ==
  /\ timer = 0 /\ timer' = -1 /\ spawned' = spawned + 1
  /\ since' = IF kind = "loop" THEN 0 ELSE since
  /\ UNCHANGED <<kind, up, posted, dirty, quiet>>

\* _run and _run_now begin in an iteration of their own.
Run ==
  /\ spawned > 0 /\ spawned' = spawned - 1 /\ Pushed
  /\ IF kind = "loop" THEN UNCHANGED <<since, timer>> ELSE since' = 0 /\ timer' = -1
  /\ UNCHANGED <<kind, up, posted>>

\* Time passes.
Tick ==
  /\ spawned = 0 /\ timer # 0
  /\ since' = IF since = Interval THEN since ELSE since + 1
  /\ quiet' = IF quiet = Interval THEN quiet ELSE quiet + 1
  /\ timer' = IF timer > 0 THEN timer - 1 ELSE timer
  /\ UNCHANGED <<kind, up, posted, spawned, dirty>>

LoopStarts == ~up /\ up' = TRUE /\ UNCHANGED <<kind, since, timer, posted, spawned, dirty, quiet>>

Init ==
  /\ kind \in {"loop", "async"} /\ up = (kind = "async")
  /\ since = Interval /\ timer = -1 /\ posted = 0 /\ spawned = 0
  /\ dirty = FALSE /\ quiet = Interval

Next ==
  \/ HandlerRequests \/ ThreadRequests \/ Arrive \/ Schedule
  \/ OnTimer \/ Run \/ Tick \/ LoopStarts

Spec == Init /\ [][Next]_vars

----------------------------------------------------------------------------
(* Properties                                                               *)

\* The variables have the types the code gives them.
TypeOK ==
  /\ kind \in {"loop", "async"} /\ up \in BOOLEAN /\ dirty \in BOOLEAN
  /\ since \in 0 .. Interval /\ quiet \in 0 .. Interval /\ timer \in -1 .. Interval
  /\ posted \in 0 .. MaxPending /\ spawned \in Nat

\* The last change always goes out, however the requests of the handlers, of the other
\* threads and the timer interleave: while one has not, a push is booked, is to begin, or is
\* asked for.
ChangeIsOnItsWay == dirty => timer >= 0 \/ spawned > 0 \/ posted > 0

\* LoopThrottle begins at most one push per interval: when one is to begin, the last one is
\* an interval away, and no two are to begin.
AtMostOnePush ==
  kind = "loop" => spawned <= 1 /\ (spawned = 1 => quiet = Interval)

----------------------------------------------------------------------------
(* Promises the code does not keep; TLC shows how                           *)

\* railway/shared/throttle.py:1, "at most one execution per interval".
AsyncRunsOnce == kind = "async" => spawned <= 1

----------------------------------------------------------------------------
(* The inductive invariant behind the theorems of LimitsProofs              *)

ClockTypeOK ==
  /\ kind \in {"loop", "async"}
  /\ since \in 0 .. Interval /\ quiet \in 0 .. Interval /\ timer \in -1 .. Interval
  /\ posted \in 0 .. MaxPending /\ spawned \in Nat

\* A booked run is due an interval after the last one, and a push is never younger than the
\* decision to make it.
Paced == quiet >= since /\ (timer >= 0 => timer + since = Interval)

\* The run to begin was decided on in this tick.
Decided == kind = "loop" /\ spawned > 0 => since = 0 /\ timer # 0

ThrottleInv ==
  /\ up \in BOOLEAN /\ dirty \in BOOLEAN /\ ClockTypeOK
  /\ Paced /\ Decided /\ AtMostOnePush /\ ChangeIsOnItsWay
=============================================================================
