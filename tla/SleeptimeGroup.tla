-------------------------- MODULE SleeptimeGroup --------------------------
(***************************************************************************)
(* The sleeptime group of an agent (sleeptime_multi_agent_v4): when the    *)
(* agent's stream ends, every Frequency-th turn hands a transcript of the  *)
(* messages since the last one to a background task.  It composes with     *)
(* the agent loop, whose response messages and rows it reads; it runs in   *)
(* the `finally` of the stream, so the lock of the conversation is held.   *)
(*                                                                         *)
(* The counter and the id of the last processed message are columns of the *)
(* group's row, each read and written back without a lock.  A message is   *)
(* named by its place in the message table, which is its sequence_id.      *)
(***************************************************************************)
EXTENDS AgentLoop, Integers, FiniteSetsExt

CONSTANTS
  Frequency,   \* sleeptime_agent_frequency, 0 for None
  Limit,       \* messages list_messages returns at most (50)
  TasksFail    \* whether a background task may be lost

ASSUME GroupAssumption ==
  /\ Frequency \in Nat
  /\ Limit \in Nat \ {0}
  /\ TasksFail \in BOOLEAN

VARIABLES
  counter,     \* turns_counter
  anchor,      \* last_processed_message_id
  group,       \* [Req -> what the end of its stream is at]
  transcript   \* [Req -> the rows its background task was given]

groupVars == <<counter, anchor, group, transcript>>

NoMessage == 0  \* no id yet
NoRow == -1     \* the id of a message that was never stored

GroupTypeOK ==
  /\ counter \in -1 .. Frequency
  /\ Frequency > 0 => counter < Frequency
  /\ anchor \in {NoRow, NoMessage} \cup DOMAIN rows
  /\ \A r \in Req :
       /\ group[r].at \in {"stream", "bump", "due", "claim", "task", "lost", "over"}
       /\ group[r].read \in -1 .. Frequency
       /\ group[r].after \in {NoRow, NoMessage} \cup DOMAIN rows
       /\ transcript[r] \subseteq DOMAIN rows

GroupInit ==
  /\ counter = -1
  /\ anchor = NoMessage
  /\ group = [r \in Req |-> [at |-> "stream", read |-> 0, after |-> NoMessage]]
  /\ transcript = [r \in Req |-> {}]

Move(r, f) == group' = [group EXCEPT ![r] = f]

-----------------------------------------------------------------------------
(* The stream is over, its `finally` is not: a request that was refused or  *)
(* whose server stopped has none.                                           *)
InFinally(r) ==
  /\ loop[r].at = "done" /\ loop[r].stop \notin {"busy", "crashed"}
  /\ group[r].at \in {"stream", "bump", "due", "claim"}

(* Nothing to hand over without response messages, though the turn counts.  *)
Due(r) == IF loop[r].resp = <<>> THEN "over" ELSE "due"

(* bump_turns_counter_async reads the row, unless every turn is due...      *)
ReadCounter(r) ==
  /\ InFinally(r) /\ group[r].at = "stream"
  /\ Move(r, [group[r] EXCEPT !.at = IF Frequency = 0 THEN Due(r) ELSE "bump", !.read = counter])
  /\ UNCHANGED <<counter, anchor, transcript>>

\* Mutant of Bumped: the counter is not wrapped.
Bumped_Unwrapped(n) == n + 1

Bumped(n) == (n + 1) % Frequency

(* ... and writes it.  A turn is due when the counter wraps.                *)
BumpCounter(r) ==
  /\ group[r].at = "bump"
  /\ counter' = Bumped(group[r].read)
  /\ Move(r, [group[r] EXCEPT !.at = IF counter' = 0 THEN Due(r) ELSE "over"])
  /\ UNCHANGED <<anchor, transcript>>

(* get_last_processed_message_id_and_update_async reads the row...          *)
ReadAnchor(r) ==
  /\ group[r].at = "due"
  /\ Move(r, [group[r] EXCEPT !.at = "claim", !.after = anchor])
  /\ UNCHANGED <<counter, anchor, transcript>>

RowsOf(m) == {i \in DOMAIN rows : rows[i] = m}
Responses(r) == UNION {RowsOf(m) : m \in Elements(loop[r].resp)}
Newest(r) == LET here == RowsOf(Last(loop[r].resp)) IN IF here = {} THEN NoRow ELSE Max(here)

\* Mutant of MoveAnchor: the id is read back after it was moved.
MoveAnchor_ReadsBack(r) ==
  /\ group[r].at = "claim"
  /\ anchor' = Newest(r)
  /\ Move(r, [group[r] EXCEPT !.at = "task", !.after = Newest(r)])
  /\ UNCHANGED <<counter, transcript>>

(* ... and moves the id to the newest response before anyone has seen the   *)
(* messages.                                                                *)
MoveAnchor(r) ==
  /\ group[r].at = "claim"
  /\ anchor' = Newest(r)
  /\ Move(r, [group[r] EXCEPT !.at = "task"])
  /\ UNCHANGED <<counter, transcript>>

\* Mutant of Between: the row after which to list is listed again.
Between_Inclusive(r) == {i \in DOMAIN rows : group[r].after <= i /\ i < Min(RowsOf(Head(loop[r].resp)))}

(* Rows after the message processed last and before the first response.     *)
Between(r) == {i \in DOMAIN rows : group[r].after < i /\ i < Min(RowsOf(Head(loop[r].resp)))}

(* Both ids have rows.                                                      *)
Listable(r) == group[r].after # NoRow /\ RowsOf(Head(loop[r].resp)) # {}

(* list_messages: the first Limit of them, none when one of the two ids has *)
(* no row (the exception is ignored), and none for a group without a        *)
(* frequency.                                                               *)
Prior(r) ==
  IF Frequency = 0 \/ ~Listable(r) THEN {}
  ELSE {i \in Between(r) : Cardinality({j \in Between(r) : j <= i}) <= Limit}

(* The background task reads the transcript and runs the sleeptime agent... *)
Review(r) ==
  /\ group[r].at = "task"
  /\ transcript' = [transcript EXCEPT ![r] = Prior(r) \cup Responses(r)]
  /\ Move(r, [group[r] EXCEPT !.at = "over"])
  /\ UNCHANGED <<counter, anchor>>

(* ... or fails: creating its run did, the agent's step did, or the server  *)
(* stopped.  Nobody starts it again.                                        *)
LoseTask(r) ==
  /\ TasksFail
  /\ group[r].at = "task"
  /\ Move(r, [group[r] EXCEPT !.at = "lost"])
  /\ UNCHANGED <<counter, anchor, transcript>>

(* The server stops in the `finally`.                                       *)
StopInFinally(r) ==
  /\ r \in MayCrash
  /\ InFinally(r)
  /\ Move(r, [group[r] EXCEPT !.at = "over"])
  /\ UNCHANGED <<counter, anchor, transcript>>

GroupStep(r) ==
  \/ ReadCounter(r) \/ BumpCounter(r) \/ ReadAnchor(r) \/ MoveAnchor(r)
  \/ Review(r) \/ LoseTask(r) \/ StopInFinally(r)

(* The next request of the thread waits for the lock of a stream that is in *)
(* its `finally`.  (That it may be refused meanwhile is Refused, earlier.)  *)
Admitted(r) ==
  loop[r].at = "loaded" /\ r \in Locked =>
    \A q \in Locked : ThreadOf[q] = ThreadOf[r] => ~InFinally(q)

GroupNext ==
  \E r \in Req :
    \/ (Loop(r) \/ Cancellation(r)) /\ Admitted(r) /\ UNCHANGED groupVars
    \/ GroupStep(r) /\ UNCHANGED vars

GroupSpec == Init /\ GroupInit /\ [][GroupNext]_<<vars, groupVars>>

-----------------------------------------------------------------------------
(* The sleeptime agents of a conversation are given no message twice,       *)
(* whichever turns failed, were cancelled or had nothing to hand over, and  *)
(* however late the background tasks read their transcripts.                *)
NoMessageReviewedTwice ==
  \A r, q \in Req : r # q => transcript[r] \cap transcript[q] = {}

(* The window of a turn whose task is under way or was lost, or the rest of *)
(* a window that had too much in it.                                        *)
InWindow(i, r) ==
  /\ group[r].at \in {"task", "lost"} \/ transcript[r] # {}
  /\ Listable(r) /\ i \in Between(r)
  /\ transcript[r] # {} => Cardinality({j \in Between(r) : j <= i}) > Limit

(* What a user wrote before the last processed message reached the          *)
(* sleeptime agents, over turns that were skipped, failed or crashed,       *)
(* except: the window of its turn was lost, is waiting for its task or      *)
(* exceeds the limit, or the message is stored after a response of its own  *)
(* turn - the message that follows up an approval, or one whose context was *)
(* compacted before its first step was stored.                              *)
UserMessagesReviewed ==
  \A i \in 1 .. anchor :
    rows[i].kind = "user" =>
      \/ \E r \in Req : i \in transcript[r]
      \/ \E r \in Req : InWindow(i, r)
      \/ \E j \in Responses(rows[i].run) : j < i
=============================================================================
