---------------------------- MODULE DaemonLock ----------------------------
(***************************************************************************)
(* One daemon at a time (daemon/lock.py, the start of daemon/__main__.py).  *)
(* The lock is a file with the pid of the daemon and the time of its last   *)
(* heartbeat.  Who starts reads it, judges it, kills a holder that does not *)
(* beat any more, and writes its own; nothing of this is atomic, and        *)
(* neither is the heartbeat, which rewrites the file.                       *)
(***************************************************************************)
EXTENDS Integers, FiniteSets

CONSTANTS Pids, None, Torn, MaxStarts   \* processes; a torn file; bound on the starts

LockAssumption ==
  MaxStarts \in Nat \ {0} /\ {None, Torn} \cap [pid : Pids, fresh : BOOLEAN] = {}

VARIABLES
  pc,        \* of every process: where it is in its start, or that it runs
  seen,      \* what it read: the holder and whether it was healthy
  lock,      \* the file: None when there is none, Torn while it is rewritten, or the
             \* holder and whether its heartbeat is recent
  stalled,   \* processes whose main loop hangs
  signalled, \* processes with a SIGTERM that they have not handled yet
  starts,
  raced      \* history: two starts overlapped, a loop hung, or a rewrite was read

vars == <<pc, seen, lock, stalled, signalled, starts, raced>>

Alive(p) == pc[p] # "off"
Starting == {"read", "kill", "unlink", "write", "fill"}
Runs(p) == pc[p] \in {"run", "beat"}

Go(p, step) == pc' = [pc EXCEPT ![p] = step]
Stays(p) == p \notin stalled /\ p \notin signalled
Steps(p, from, to) == Stays(p) /\ pc[p] = from /\ Go(p, to)

----------------------------------------------------------------------------
(* check_and_acquire_lock and write_lock                                    *)

\* A start: the lock is read; a missing or a torn one is no lock.
ReadLock(p) ==
  /\ pc[p] = "off" /\ starts < MaxStarts /\ starts' = starts + 1
  /\ seen' = [seen EXCEPT ![p] = IF lock \in {None, Torn} THEN None ELSE lock]
  /\ Go(p, "read")
  /\ raced' = (raced \/ lock = Torn \/ \E q \in Pids : pc[q] \in Starting)
  /\ UNCHANGED <<lock, stalled, signalled>>

\* Rejected variant of Judge: a living holder is killed, hung or not.
JudgeRough(p) ==
  /\ Stays(p) /\ pc[p] = "read"
  /\ Go(p, IF seen[p] = None \/ seen[p].pid = p THEN "write"
           ELSE IF ~Alive(seen[p].pid) THEN "unlink" ELSE "kill")
  /\ UNCHANGED <<seen, lock, stalled, signalled, starts, raced>>

\* The holder is judged: healthy, and this process gives up; hung; dead; none at all, or this
\* process's own id, reused.
Judge(p) ==
  /\ Stays(p) /\ pc[p] = "read"
  /\ Go(p, IF seen[p] = None \/ seen[p].pid = p THEN "write"
           ELSE IF ~Alive(seen[p].pid) THEN "unlink"
           ELSE IF seen[p].fresh THEN "off" ELSE "kill")
  /\ UNCHANGED <<seen, lock, stalled, signalled, starts, raced>>

\* SIGTERM, and half a second, which the holder may not need or may need and not have.
Kill(p) ==
  /\ Steps(p, "kill", "unlink")
  /\ signalled' = signalled \cup {q \in {seen[p].pid} : Alive(q)}
  /\ UNCHANGED <<seen, lock, stalled, starts, raced>>

Unlink(p) ==
  /\ Steps(p, "unlink", "write") /\ lock' = None
  /\ UNCHANGED <<seen, stalled, signalled, starts, raced>>

\* write_text opens the file, which empties it, and writes it.
Empty(p) ==
  /\ Steps(p, "write", "fill") /\ lock' = Torn
  /\ UNCHANGED <<seen, stalled, signalled, starts, raced>>

Fill(p) ==
  /\ Steps(p, "fill", "run") /\ lock' = [pid |-> p, fresh |-> TRUE]
  /\ UNCHANGED <<seen, stalled, signalled, starts, raced>>

----------------------------------------------------------------------------
(* A daemon that runs                                                       *)

\* The heartbeat, whoever's lock is there.
Beat(p) ==
  /\ Steps(p, "run", "beat") /\ lock' = Torn
  /\ UNCHANGED <<seen, stalled, signalled, starts, raced>>

Beaten(p) ==
  /\ Steps(p, "beat", "run") /\ lock' = [pid |-> p, fresh |-> TRUE]
  /\ UNCHANGED <<seen, stalled, signalled, starts, raced>>

\* The main loop hangs, for longer than _HEARTBEAT_STALE_THRESHOLD, and goes on.
Stall(p) ==
  /\ pc[p] = "run" /\ p \notin stalled /\ stalled' = stalled \cup {p} /\ raced' = TRUE
  /\ UNCHANGED <<pc, seen, lock, signalled, starts>>

Resume(p) ==
  /\ p \in stalled /\ stalled' = stalled \ {p}
  /\ UNCHANGED <<pc, seen, lock, signalled, starts, raced>>

\* The heartbeat grows old when nobody renews it.
Age ==
  /\ lock \notin {None, Torn} /\ lock.fresh
  /\ ~Runs(lock.pid) \/ lock.pid \in stalled
  /\ lock' = [lock EXCEPT !.fresh = FALSE]
  /\ UNCHANGED <<pc, seen, stalled, signalled, starts, raced>>

\* cleanup_lock, for SIGTERM, SIGINT and Ctrl-C: the lock is removed, whosever it is.
Exit(p) ==
  /\ Runs(p) /\ p \notin stalled
  /\ Go(p, "off") /\ lock' = None /\ signalled' = signalled \ {p}
  /\ UNCHANGED <<seen, stalled, starts, raced>>

\* A process that has no handler yet, or is killed, or crashes: the lock stays.
Crash(p) ==
  /\ Alive(p) /\ Go(p, "off")
  /\ signalled' = signalled \ {p} /\ stalled' = stalled \ {p}
  /\ UNCHANGED <<seen, lock, starts, raced>>

Init ==
  /\ pc = [p \in Pids |-> "off"] /\ seen = [p \in Pids |-> None] /\ lock = None
  /\ stalled = {} /\ signalled = {} /\ starts = 0 /\ raced = FALSE

Next ==
  \/ \E p \in Pids :
       \/ ReadLock(p) \/ Judge(p) \/ Kill(p) \/ Unlink(p) \/ Empty(p) \/ Fill(p)
       \/ Beat(p) \/ Beaten(p) \/ Stall(p) \/ Resume(p) \/ Exit(p) \/ Crash(p)
  \/ Age

Spec == Init /\ [][Next]_vars

----------------------------------------------------------------------------
(* Properties                                                               *)

\* The variables have the types the code gives them.
TypeOK ==
  /\ pc \in [Pids -> Starting \cup {"off", "run", "beat"}]
  /\ lock \notin {None, Torn} => lock.pid \in Pids /\ lock.fresh \in BOOLEAN
  /\ stalled \cup signalled \subseteq Pids /\ starts \in 0 .. MaxStarts

\* lock.py:46, "decide whether to start, kill previous, or abort": as long as starts do not
\* overlap and no loop hangs, at most one daemon runs, and it holds the lock.
OneDaemon ==
  ~raced => /\ Cardinality({p \in Pids : Runs(p)}) <= 1
            /\ \A p \in Pids : pc[p] = "run" => lock # None /\ (lock # Torn => lock.pid = p)
            /\ signalled = {}

----------------------------------------------------------------------------
(* Promises the code does not keep; TLC shows how                           *)

\* The same whatever overlaps.
AlwaysOneDaemon == Cardinality({p \in Pids : Runs(p)}) <= 1

\* lock.py:77-82: the lock of a daemon that runs well is not removed by another.
LockOfTheHealthy ==
  \A p \in Pids : Runs(p) /\ p \notin stalled /\ (\A q \in Pids \ {p} : ~Alive(q)) => lock # None

----------------------------------------------------------------------------
(* The inductive invariant behind the theorems of LimitsProofs              *)

LockTypeOK ==
  /\ pc \in [Pids -> Starting \cup {"off", "run", "beat"}]
  /\ lock \in {None, Torn} \cup [pid : Pids, fresh : BOOLEAN]
  /\ seen \in [Pids -> {None} \cup [pid : Pids, fresh : BOOLEAN]]

\* Who runs holds the lock and renews it; who starts finds the one that runs, alive and
\* healthy, or goes on alone: nobody is killed.
Alone ==
  /\ stalled = {} /\ signalled = {}
  /\ \A p \in Pids :
       /\ pc[p] = "run" => lock = [pid |-> p, fresh |-> TRUE]
       /\ pc[p] = "beat" => lock = Torn
       /\ pc[p] # "kill"
       /\ pc[p] \in Starting => \A q \in Pids : pc[q] \in Starting => q = p
       /\ \A q \in Pids : Runs(q) =>
            /\ Runs(p) => q = p
            /\ pc[p] \in Starting => pc[p] = "read" /\ seen[p] = [pid |-> q, fresh |-> TRUE]

LockInv == LockTypeOK /\ raced \in BOOLEAN /\ (~raced => Alone)
=============================================================================
