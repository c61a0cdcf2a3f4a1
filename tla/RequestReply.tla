---------------------------- MODULE RequestReply ----------------------------
(***************************************************************************)
(* What a phone may rely on when it calls the trainer's daemon through     *)
(* Railway, whatever happens to the links, the workers and the timers: a   *)
(* call is performed at most once, it returns once, and a call that        *)
(* returns well returns the verdict of its own execution.  A call that     *)
(* fails promises nothing: it may be performed, even later.                *)
(*                                                                         *)
(* A verdict is the place of the write among all writes of the daemon's    *)
(* state (its first write is 1), or Rejected.                              *)
(***************************************************************************)
EXTENDS Integers

CONSTANT Requests

NotYet   == -1   \* no verdict so far
Rejected == 0    \* the handler refused the request and changed nothing

VARIABLES
  writes,    \* how many writes the daemon's state has seen
  verdict,   \* of every request the daemon performed or rejected
  status,    \* of every call: "new", "asked", "ok" or "failed"
  answer     \* what the calls that ended well returned

vars == <<writes, verdict, status, answer>>

Init ==
  /\ writes = 0
  /\ verdict = [r \in Requests |-> NotYet]
  /\ status = [r \in Requests |-> "new"]
  /\ answer = [r \in Requests |-> NotYet]

Ask(r) ==
  /\ status[r] = "new"
  /\ status' = [status EXCEPT ![r] = "asked"]
  /\ UNCHANGED <<writes, verdict, answer>>

Perform(r) ==
  /\ status[r] # "new" /\ verdict[r] = NotYet
  /\ \/ writes' = writes + 1 /\ verdict' = [verdict EXCEPT ![r] = writes + 1]
     \/ verdict' = [verdict EXCEPT ![r] = Rejected] /\ UNCHANGED writes
  /\ UNCHANGED <<status, answer>>

\* A write of the host, or of the daemon itself.
OtherWrite == writes' = writes + 1 /\ UNCHANGED <<verdict, status, answer>>

Return(r) ==
  /\ status[r] = "asked" /\ verdict[r] # NotYet
  /\ status' = [status EXCEPT ![r] = "ok"]
  /\ answer' = [answer EXCEPT ![r] = verdict[r]]
  /\ UNCHANGED <<writes, verdict>>

\* Calls may fail together (Railway stops), and a call may fail without being sent.
Fail(calls) ==
  /\ calls \subseteq {r \in Requests : status[r] \in {"new", "asked"}}
  /\ status' = [r \in Requests |-> IF r \in calls THEN "failed" ELSE status[r]]
  /\ UNCHANGED <<writes, verdict, answer>>

Next ==
  \/ \E r \in Requests : Ask(r) \/ Perform(r) \/ Return(r)
  \/ \E calls \in SUBSET Requests : Fail(calls)
  \/ OtherWrite

Spec == Init /\ [][Next]_vars
=============================================================================
