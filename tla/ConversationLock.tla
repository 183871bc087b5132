-------------------------- MODULE ConversationLock --------------------------
(***************************************************************************)
(* What the conversation lock promises: a request gets the lock of its key *)
(* only while nobody has it, runs its agent loop once and only under the   *)
(* lock, gives back its own lock and nobody else's, and once it has given  *)
(* it back neither takes it again nor runs.                                *)
(***************************************************************************)
CONSTANTS Req, NoReq, Key, KeyOf

VARIABLES
  holder,  \* [Key -> Req or NoReq]
  phase    \* [Req -> "waiting", "holding", "working", "stopped" or "finished"]

vars == <<holder, phase>>

Init ==
  /\ holder = [k \in Key |-> NoReq]
  /\ phase = [r \in Req |-> "waiting"]

Move(r, from, to) == phase[r] = from /\ phase' = [phase EXCEPT ![r] = to]

Acquire(r) ==
  /\ Move(r, "waiting", "holding")
  /\ holder[KeyOf[r]] = NoReq
  /\ holder' = [holder EXCEPT ![KeyOf[r]] = r]

(* The agent loop of the holder starts ...                                  *)
Work(r) ==
  /\ Move(r, "holding", "working")
  /\ holder[KeyOf[r]] = r
  /\ UNCHANGED holder

(* ... and ends while it still is the holder.                               *)
Stop(r) ==
  /\ Move(r, "working", "stopped")
  /\ holder[KeyOf[r]] = r
  /\ UNCHANGED holder

(* A request that failed before its loop started gives the lock back too.   *)
Release(r) ==
  /\ Move(r, "stopped", "finished") \/ Move(r, "holding", "finished")
  /\ holder[KeyOf[r]] = r
  /\ holder' = [holder EXCEPT ![KeyOf[r]] = NoReq]

Next == \E r \in Req : Acquire(r) \/ Work(r) \/ Stop(r) \/ Release(r)

Spec == Init /\ [][Next]_vars
=============================================================================
