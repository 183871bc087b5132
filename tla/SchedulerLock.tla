--------------------------- MODULE SchedulerLock ---------------------------
(***************************************************************************)
(* Leader election of the batch scheduler (jobs/scheduler.py): servers     *)
(* compete for one PostgreSQL advisory lock, and the one that got it runs  *)
(* the polling job.                                                        *)
(*                                                                         *)
(* The lock belongs to a database connection, and the session that took it *)
(* commits at once, which gives the connection back to the server's pool.  *)
(* So the pool may close the connection, and with it free the lock, while  *)
(* the server leads on, and the unlock may run on another connection and   *)
(* miss.                                                                   *)
(***************************************************************************)
CONSTANT Server

ASSUME ServerAssumption == "free" \notin Server /\ "dead" \notin Server

VARIABLES
  lock,   \* whose pool has the locking connection: "dead" once its process is gone
  sched,  \* [Server -> where the server is in its election]
  lost    \* leaders whose locking connection was closed (history)

lockVars == <<lock, sched, lost>>

Up == {"trying", "acquired", "leader", "waiting", "released"}

LockTypeOK ==
  /\ lock \in Server \cup {"free", "dead"}
  /\ sched \in [Server -> Up \cup {"down"}]
  /\ lost \in SUBSET Server

LockInit ==
  /\ lock = "free"
  /\ sched = [s \in Server |-> "down"]
  /\ lost = {}

Goto(s, state) == sched' = [sched EXCEPT ![s] = state]

(* pg_advisory_unlock on some connection of the pool: a hit or a miss.      *)
Unlock(s) ==
  \/ lock' = lock
  \/ lock = s /\ lock' = "free"

Start(s) ==
  /\ sched[s] = "down"
  /\ Goto(s, "trying")
  /\ UNCHANGED <<lock, lost>>

\* Mutant of MayTake: whoever asks gets the lock.
MayTake_Anyone(s) == TRUE

(* The lock is free, or the very connection that holds it asks again.       *)
MayTake(s) == lock = "free" \/ lock = s

(* pg_try_advisory_lock; refused, the server tries again after an interval. *)
TryLock(s) ==
  /\ sched[s] = "trying"
  /\ \/ MayTake(s) /\ lock' = s /\ Goto(s, "acquired")
     \/ lock # "free" /\ lock' = lock /\ Goto(s, "waiting")
  /\ UNCHANGED lost

Retry(s) ==
  /\ sched[s] = "waiting"
  /\ Goto(s, "trying")
  /\ UNCHANGED <<lock, lost>>

(* The job is scheduled and the flag set...                                 *)
Lead(s) ==
  /\ sched[s] = "acquired"
  /\ Goto(s, "leader")
  /\ UNCHANGED <<lock, lost>>

(* ... or the commit or the scheduler raised: unlock and retry later.       *)
LeadFails(s) ==
  /\ sched[s] = "acquired"
  /\ Unlock(s)
  /\ Goto(s, "waiting")
  /\ lost' = lost \ {s}

(* The pool closes the connection that holds the lock: it reached           *)
(* pg_pool_recycle, was an overflow connection, or pooling is off.          *)
Recycle(s) ==
  /\ lock = s
  /\ lock' = "free"
  /\ lost' = IF sched[s] \in {"acquired", "leader"} THEN lost \cup {s} ELSE lost
  /\ UNCHANGED sched

(* shutdown_scheduler_and_release_lock: a leader stops its scheduler, which *)
(* cancels a poll in progress, then unlocks; another cancels its retries.   *)
Shutdown(s) ==
  /\ sched[s] \in Up \ {"released"}
  /\ IF sched[s] = "leader" THEN Unlock(s) ELSE lock' = lock
  /\ Goto(s, "released")
  /\ lost' = lost \ {s}

(* The process ends with all its connections...                             *)
Exit(s) ==
  /\ sched[s] = "released"
  /\ lock' = IF lock = s THEN "free" ELSE lock
  /\ Goto(s, "down")
  /\ UNCHANGED lost

(* ... or dies, and the database has yet to notice.                         *)
Crash(s) ==
  /\ sched[s] \in Up
  /\ lock' = IF lock = s THEN "dead" ELSE lock
  /\ Goto(s, "down")
  /\ lost' = lost \ {s}

DropDead ==
  /\ lock = "dead"
  /\ lock' = "free"
  /\ UNCHANGED <<sched, lost>>

Elect(s) == Start(s) \/ TryLock(s) \/ Retry(s) \/ Lead(s)

LockNext ==
  \/ \E s \in Server : \/ Elect(s) \/ LeadFails(s) \/ Recycle(s)
                       \/ Shutdown(s) \/ Exit(s) \/ Crash(s)
  \/ DropDead

LockSpec == LockInit /\ [][LockNext]_lockVars

Leaders == {s \in Server : sched[s] = "leader"}

(* Two servers lead at once only after the connection of one was closed     *)
(* under it, however they start, fail, shut down, die and come back.        *)
OneLeader == \A s, t \in Leaders : s = t \/ s \in lost \/ t \in lost

(* The inductive form: whoever got the lock and did not lose it holds it.   *)
HoldsLock ==
  \A s \in Server : sched[s] \in {"acquired", "leader"} => lock = s \/ s \in lost
=============================================================================
