---------------------------- MODULE RunLifecycle ----------------------------
(***************************************************************************)
(* The life of a message request that takes the conversation lock: its     *)
(* admission (duplicate recovery, lock, run creation, otid mapping), the   *)
(* background stream processor or the foreground response that consumes    *)
(* the agent stream, the asynchronous finalisation of that stream, the     *)
(* cancellation of its run, and the writes each of them makes to the lock  *)
(* (Redis) and to the run row (database).                                  *)
(*                                                                         *)
(* A request is identified with the run it creates.  Every "await" of the  *)
(* code that another actor can observe separates two actions.              *)
(***************************************************************************)
EXTENDS Naturals

CONSTANTS
  Req,         \* the requests, each identified with the run it may create
  NoReq,       \* "no request": a free lock, an absent otid mapping
  Key,         \* conversation or agent ids used as lock keys
  Token,       \* request tokens (hash of all message otids)
  KeyOf,       \* [Req -> Key]: the lock key of a request
  TokenOf,     \* [Req -> Token]: equal for two sends of the same messages
  KindOf,      \* [Req -> Kind]: how the request is served
  Direct,      \* requests in agent-direct mode: their run has no conversation
  AgentStops,  \* the stop reasons the agent loop ends with by itself
  Faults       \* what may go wrong in this instance

Kind == {"background", "foreground", "sync"}

StopReason == {"end_turn", "requires_approval", "max_steps", "tool_rule",
               "error", "llm_api_error", "insufficient_credits", "cancelled"}
NoStop == "no_stop"

Fault == {"create", "load", "raise", "writer", "interrupt", "cancel", "expire"}

ASSUME RequestAssumption ==
  /\ NoReq \notin Req
  /\ KeyOf \in [Req -> Key]
  /\ TokenOf \in [Req -> Token]
  /\ KindOf \in [Req -> Kind]
  /\ Direct \subseteq Req
  /\ AgentStops \subseteq StopReason \ {"cancelled"}
  /\ Faults \subseteq Fault

VARIABLES
  lock,     \* [Key -> Req or NoReq]: whose token the Redis lock key holds
  otid,     \* [Token -> Req or NoReq]: the otid -> run_id mapping in Redis
  run,      \* [Req -> run row]: status and stop_reason in the database
  handler,  \* [Req -> program point of the HTTP handler]
  tries,    \* [Req -> Nat]: second-chance recovery attempts made
  plan,     \* [Req -> status the handler decided to write, or "none"]
  stream,   \* [Req -> state of the agent stream]: open while it processes
  proc,     \* [Req -> program point of the background stream processor]
  pstop,    \* [Req -> stop reason the processor will record]
  fin,      \* [Req -> finalisation of the error-aware stream generator]
  canc      \* [Req -> program point of the cancellation of the run]

admission == <<handler, tries, plan>>
vars == <<lock, otid, run, admission, stream, proc, pstop, fin, canc>>

-----------------------------------------------------------------------------
RunStatus == {"created", "running", "completed", "failed", "cancelled"}
Terminal == {"completed", "failed", "cancelled"}
NoRun == "absent"

HandlerPoint == {"start", "acquire", "holder", "retry", "create", "map",
                 "spawn", "refetch", "write", "release", "step", "unlock",
                 "returned", "recovered", "busy", "failed"}
Answered == {"returned", "recovered", "busy", "failed"}
StreamState == {"none", "open", "agent_cancel", "wrapper_cancel", "closed"}
ProcPoint == {"none", "spawned", "streaming", "failing", "stop", "release",
              "update", "finalize", "done", "dead"}
FinPoint == {"none", "write", "release", "done", "skipped"}
CancPoint == {"idle", "write", "release", "done"}

TypeOK ==
  /\ lock \in [Key -> Req \cup {NoReq}]
  /\ otid \in [Token -> Req \cup {NoReq}]
  /\ run \in [Req -> [status : RunStatus \cup {NoRun},
                      stop   : StopReason \cup {NoStop}]]
  /\ handler \in [Req -> HandlerPoint]
  /\ tries \in [Req -> 0..3]
  /\ plan \in [Req -> {"none", "running", "failed"}]
  /\ stream \in [Req -> StreamState]
  /\ proc \in [Req -> ProcPoint]
  /\ pstop \in [Req -> StopReason \cup {NoStop}]
  /\ fin \in [Req -> [at     : FinPoint,
                      status : RunStatus \cup {NoRun},
                      stop   : StopReason \cup {NoStop}]]
  /\ canc \in [Req -> CancPoint]

(* StopReasonType.run_status: the canonical mapping. *)
RunStatusOf(s) ==
  CASE s \in {"end_turn", "requires_approval", "max_steps", "tool_rule"} -> "completed"
    [] s = "cancelled" -> "cancelled"
    [] OTHER           -> "failed"

NoFin == [at |-> "none", status |-> NoRun, stop |-> NoStop]

Init ==
  /\ lock = [k \in Key |-> NoReq]
  /\ otid = [t \in Token |-> NoReq]
  /\ run = [r \in Req |-> [status |-> NoRun, stop |-> NoStop]]
  /\ handler = [r \in Req |-> "start"]
  /\ tries = [r \in Req |-> 0]
  /\ plan = [r \in Req |-> "none"]
  /\ stream = [r \in Req |-> "none"]
  /\ proc = [r \in Req |-> "none"]
  /\ pstop = [r \in Req |-> NoStop]
  /\ fin = [r \in Req |-> NoFin]
  /\ canc = [r \in Req |-> "idle"]

Goto(r, pt) == handler' = [handler EXCEPT ![r] = pt]

(* release_conversation_lock: DEL of the key, whoever holds it. *)
ReleaseLock(r) == lock' = [lock EXCEPT ![KeyOf[r]] = NoReq]

(* The transaction of update_run_by_id_async: lifecycle violations are only *)
(* logged, the new status always replaces the old one; stop_reason is kept  *)
(* when the update carries none.                                            *)
WriteRun(r, status, stop) ==
  run' = [run EXCEPT ![r] =
            [status |-> status, stop |-> IF stop = NoStop THEN @.stop ELSE stop]]

-----------------------------------------------------------------------------
(* Admission: StreamingService.create_agent_stream up to the run creation.  *)

(* Background requests first look for a run already mapped to their token.  *)
Arrive(r) ==
  /\ handler[r] = "start"
  /\ Goto(r, IF KindOf[r] = "background" /\ otid[TokenOf[r]] # NoReq
             THEN "recovered" ELSE "acquire")
  /\ UNCHANGED <<lock, otid, run, tries, plan, stream, proc, pstop, fin, canc>>

\* Mutant of AcquireLock: the Redis SET without NX.
AcquireLock_NoNX(r) ==
  /\ handler[r] = "acquire"
  /\ lock' = [lock EXCEPT ![KeyOf[r]] = r]
  /\ Goto(r, "create")
  /\ UNCHANGED <<otid, run, tries, plan, stream, proc, pstop, fin, canc>>

\* Mutant of AcquireLock: the otid mapping is stored before the run exists.
AcquireLock_MapsEarly(r) ==
  /\ handler[r] = "acquire"
  /\ lock[KeyOf[r]] = NoReq
  /\ lock' = [lock EXCEPT ![KeyOf[r]] = r]
  /\ otid' = [otid EXCEPT ![TokenOf[r]] = r]
  /\ Goto(r, "create")
  /\ UNCHANGED <<run, tries, plan, stream, proc, pstop, fin, canc>>

AcquireLock(r) ==
  /\ handler[r] = "acquire"
  /\ lock[KeyOf[r]] = NoReq
  /\ lock' = [lock EXCEPT ![KeyOf[r]] = r]
  /\ Goto(r, "create")
  /\ UNCHANGED <<otid, run, tries, plan, stream, proc, pstop, fin, canc>>

AcquireFails(r) ==
  /\ handler[r] = "acquire"
  /\ lock[KeyOf[r]] # NoReq
  /\ Goto(r, "holder")
  /\ UNCHANGED <<lock, otid, run, tries, plan, stream, proc, pstop, fin, canc>>

SameTokenHolds(r) ==
  /\ lock[KeyOf[r]] # NoReq
  /\ TokenOf[lock[KeyOf[r]]] = TokenOf[r]

\* Mutant of ReadHolder: assumes that the lock is still held.
ReadHolder_StillHeld(r) ==
  /\ handler[r] = "holder"
  /\ lock[KeyOf[r]] # NoReq
  /\ Goto(r, IF KindOf[r] = "background" /\ SameTokenHolds(r) THEN "retry" ELSE "busy")
  /\ UNCHANGED <<lock, otid, run, tries, plan, stream, proc, pstop, fin, canc>>

(* The holder's token is read by a second Redis call after the failed SET.  *)
ReadHolder(r) ==
  /\ handler[r] = "holder"
  /\ Goto(r, IF KindOf[r] = "background" /\ SameTokenHolds(r) THEN "retry" ELSE "busy")
  /\ UNCHANGED <<lock, otid, run, tries, plan, stream, proc, pstop, fin, canc>>

\* Mutant of SecondChance: one attempt too many.
SecondChance_OffByOne(r) ==
  /\ handler[r] = "retry"
  /\ IF otid[TokenOf[r]] # NoReq
     THEN Goto(r, "recovered") /\ UNCHANGED tries
     ELSE /\ tries' = [tries EXCEPT ![r] = @ + 1]
          /\ Goto(r, IF tries[r] = 3 THEN "busy" ELSE "retry")
  /\ UNCHANGED <<lock, otid, run, plan, stream, proc, pstop, fin, canc>>

(* Second-chance recovery: three looks at the mapping, then 409.            *)
SecondChance(r) ==
  /\ handler[r] = "retry"
  /\ IF otid[TokenOf[r]] # NoReq
     THEN Goto(r, "recovered") /\ UNCHANGED tries
     ELSE /\ tries' = [tries EXCEPT ![r] = @ + 1]
          /\ Goto(r, IF tries[r] = 2 THEN "busy" ELSE "retry")
  /\ UNCHANGED <<lock, otid, run, plan, stream, proc, pstop, fin, canc>>

CreateRun(r) ==
  /\ handler[r] = "create"
  /\ run' = [run EXCEPT ![r] = [status |-> "created", stop |-> NoStop]]
  /\ Goto(r, "map")
  /\ UNCHANGED <<lock, otid, tries, plan, stream, proc, pstop, fin, canc>>

(* The insert fails: the streaming handler re-raises with run = None, so    *)
(* its finally block writes nothing and releases nothing; the sync handler  *)
(* always releases.                                                         *)
CreateRunFails(r) ==
  /\ "create" \in Faults
  /\ handler[r] = "create"
  /\ Goto(r, IF KindOf[r] = "sync" THEN "unlock" ELSE "failed")
  /\ UNCHANGED <<lock, otid, run, tries, plan, stream, proc, pstop, fin, canc>>

StoreMapping(r) ==
  /\ handler[r] = "map"
  /\ otid' = [otid EXCEPT ![TokenOf[r]] = r]
  /\ Goto(r, IF KindOf[r] = "sync" THEN "step" ELSE "spawn")
  /\ stream' = [stream EXCEPT ![r] = IF KindOf[r] = "sync" THEN "open" ELSE @]
  /\ UNCHANGED <<lock, run, tries, plan, proc, pstop, fin, canc>>

\* Mutant of SpawnStream: the background task is never scheduled.
SpawnStream_NoTask(r) ==
  /\ handler[r] = "spawn"
  /\ Goto(r, "refetch")
  /\ UNCHANGED <<lock, otid, run, tries, plan, stream, proc, pstop, fin, canc>>

(* The stream is built; in background mode the processor task is scheduled. *)
SpawnStream(r) ==
  /\ handler[r] = "spawn"
  /\ proc' = [proc EXCEPT ![r] = IF KindOf[r] = "background" THEN "spawned" ELSE @]
  /\ Goto(r, "refetch")
  /\ UNCHANGED <<lock, otid, run, tries, plan, stream, pstop, fin, canc>>

(* "refetch run since it may have been updated by another service"          *)
RefetchRun(r) ==
  /\ handler[r] = "refetch"
  /\ IF run[r].status = "created"
     THEN plan' = [plan EXCEPT ![r] = "running"] /\ Goto(r, "write")
     ELSE Goto(r, "returned") /\ UNCHANGED plan
  /\ UNCHANGED <<lock, otid, run, tries, stream, proc, pstop, fin, canc>>

(* Any exception after the run exists: the handler will mark it failed.     *)
HandlerRaises(r) ==
  /\ "load" \in Faults
  /\ handler[r] \in {"spawn", "refetch"}
  /\ plan' = [plan EXCEPT ![r] = "failed"]
  /\ Goto(r, "write")
  /\ UNCHANGED <<lock, otid, run, tries, stream, proc, pstop, fin, canc>>

(* The finally block: update_run_by_id_async with the decided status.       *)
HandlerWritesRun(r) ==
  /\ handler[r] = "write"
  /\ WriteRun(r, plan[r], NoStop)
  /\ Goto(r, IF plan[r] \in Terminal THEN "release" ELSE "returned")
  /\ UNCHANGED <<lock, otid, tries, plan, stream, proc, pstop, fin, canc>>

HandlerReleases(r) ==
  /\ handler[r] = "release"
  /\ ReleaseLock(r)
  /\ Goto(r, "failed")
  /\ UNCHANGED <<otid, run, tries, plan, stream, proc, pstop, fin, canc>>

(* _send_agent_direct_message, non-streaming: step, then release; the run   *)
(* row is not touched again.                                                *)
SyncStepEnds(r) ==
  /\ handler[r] = "step"
  /\ stream' = [stream EXCEPT ![r] = "closed"]
  /\ Goto(r, "unlock")
  /\ UNCHANGED <<lock, otid, run, tries, plan, proc, pstop, fin, canc>>

SyncReleases(r) ==
  /\ handler[r] = "unlock"
  /\ ReleaseLock(r)
  /\ Goto(r, "returned")
  /\ UNCHANGED <<otid, run, tries, plan, stream, proc, pstop, fin, canc>>

Admission(r) ==
  \/ Arrive(r) \/ AcquireLock(r) \/ AcquireFails(r) \/ ReadHolder(r) \/ SecondChance(r)
  \/ CreateRun(r) \/ CreateRunFails(r) \/ StoreMapping(r) \/ SpawnStream(r)
  \/ RefetchRun(r) \/ HandlerRaises(r) \/ HandlerWritesRun(r) \/ HandlerReleases(r)
  \/ SyncStepEnds(r) \/ SyncReleases(r)

-----------------------------------------------------------------------------
(* The agent stream (error_aware_stream) and how it notices a cancellation. *)

(* The agent's own check at a step boundary, _check_run_cancellation.       *)
AgentSeesCancel(r) ==
  /\ stream[r] = "open"
  /\ run[r].status = "cancelled"
  /\ stream' = [stream EXCEPT ![r] = "agent_cancel"]
  /\ UNCHANGED <<lock, otid, run, admission, proc, pstop, fin, canc>>

(* cancellation_aware_stream_wrapper reads the row while a chunk is in hand. *)
WrapperSeesCancel(r) ==
  /\ stream[r] = "open"
  /\ KindOf[r] # "sync"
  /\ run[r].status = "cancelled"
  /\ stream' = [stream EXCEPT ![r] = "wrapper_cancel"]
  /\ UNCHANGED <<lock, otid, run, admission, proc, pstop, fin, canc>>

SeesCancel(r) == AgentSeesCancel(r) \/ WrapperSeesCancel(r)

StopsFrom(r) == IF stream[r] = "agent_cancel" THEN {"cancelled"} ELSE AgentStops

CloseStream(r) == stream' = [stream EXCEPT ![r] = "closed"]
ArmFin(r, status, stop) ==
  fin' = [fin EXCEPT ![r] = [at |-> "write", status |-> status, stop |-> stop]]
SkipFin(r) == fin' = [fin EXCEPT ![r].at = "skipped"]

-----------------------------------------------------------------------------
(* create_background_stream_processor.                                      *)

ProcStarts(r) ==
  /\ proc[r] = "spawned"
  /\ proc' = [proc EXCEPT ![r] = "streaming"]
  /\ stream' = [stream EXCEPT ![r] = "open"]
  /\ UNCHANGED <<lock, otid, run, admission, pstop, fin, canc>>

(* The processor leaves its try block with a stop reason to record.         *)
Leave(r, point, stop) ==
  /\ proc' = [proc EXCEPT ![r] = point]
  /\ pstop' = [pstop EXCEPT ![r] = stop]
  /\ CloseStream(r)

(* The agent's stop_reason chunk, then [DONE] or an error event: the loop   *)
(* breaks there; closing the generator makes it write nothing.              *)
StreamFinishes(r) ==
  /\ proc[r] = "streaming"
  /\ stream[r] # "wrapper_cancel"
  /\ \E s \in StopsFrom(r) : Leave(r, "stop", s)
  /\ SkipFin(r)
  /\ UNCHANGED <<lock, otid, run, admission, canc>>

(* The agent raises before its first chunk: error_aware_stream is closed in *)
(* the middle of its error report, and its finally block, run by the event  *)
(* loop's generator finaliser, will mark the run failed.                    *)
StreamRaises(r) ==
  /\ "raise" \in Faults
  /\ proc[r] = "streaming"
  /\ stream[r] = "open"
  /\ Leave(r, "stop", "llm_api_error")
  /\ ArmFin(r, "failed", "llm_api_error")
  /\ UNCHANGED <<lock, otid, run, admission, canc>>

(* After the wrapper's cancelled event the chunk it held is still yielded:  *)
(* when that is the agent's own stop_reason chunk, it is the last one seen. *)
StreamCancelled(r) ==
  /\ proc[r] = "streaming"
  /\ stream[r] = "wrapper_cancel"
  /\ \E s \in AgentStops \cup {"cancelled"} : Leave(r, "stop", s)
  /\ SkipFin(r)
  /\ UNCHANGED <<lock, otid, run, admission, canc>>

(* The task itself is cancelled (shutdown): the row tells whether a user    *)
(* asked for it.                                                            *)
ProcInterrupted(r) ==
  /\ "interrupt" \in Faults
  /\ proc[r] = "streaming"
  /\ Leave(r, "stop", IF run[r].status = "cancelled" THEN "cancelled" ELSE "error")
  /\ SkipFin(r)
  /\ UNCHANGED <<lock, otid, run, admission, canc>>

(* Writing a chunk to Redis fails: the error report either gets through     *)
(* (the run is then marked failed at once) or fails as well.                *)
ProcWriteFails(r) ==
  /\ "writer" \in Faults
  /\ proc[r] = "streaming"
  /\ \E point \in {"failing", "stop"} : Leave(r, point, "error")
  /\ SkipFin(r)
  /\ UNCHANGED <<lock, otid, run, admission, canc>>

ProcMarksFailed(r) ==
  /\ proc[r] = "failing"
  /\ WriteRun(r, "failed", "error")
  /\ proc' = [proc EXCEPT ![r] = "stop"]
  /\ UNCHANGED <<lock, otid, admission, stream, pstop, fin, canc>>

\* Mutant of ProcStopsWriter: the lock is released before the last flush as
\* well as after it.
ProcStopsWriter_ReleasesTwice(r) ==
  /\ proc[r] = "stop"
  /\ ReleaseLock(r)
  /\ proc' = [proc EXCEPT ![r] = "release"]
  /\ UNCHANGED <<otid, run, admission, stream, pstop, fin, canc>>

(* finally: writer.stop(), lock release, status update, forced [DONE].      *)
ProcStopsWriter(r) ==
  /\ proc[r] = "stop"
  /\ proc' = [proc EXCEPT ![r] = "release"]
  /\ UNCHANGED <<lock, otid, run, admission, stream, pstop, fin, canc>>

(* The last flush raises: the rest of the finally block is skipped.         *)
ProcStopFails(r) ==
  /\ "writer" \in Faults
  /\ proc[r] = "stop"
  /\ proc' = [proc EXCEPT ![r] = "dead"]
  /\ UNCHANGED <<lock, otid, run, admission, stream, pstop, fin, canc>>

\* Mutant of ProcReleases: the lock is kept after a failure.
ProcReleases_OnSuccess(r) ==
  /\ proc[r] = "release"
  /\ IF RunStatusOf(pstop[r]) = "completed" THEN ReleaseLock(r) ELSE UNCHANGED lock
  /\ proc' = [proc EXCEPT ![r] = "update"]
  /\ UNCHANGED <<otid, run, admission, stream, pstop, fin, canc>>

ProcReleases(r) ==
  /\ proc[r] = "release"
  /\ ReleaseLock(r)
  /\ proc' = [proc EXCEPT ![r] = "update"]
  /\ UNCHANGED <<otid, run, admission, stream, pstop, fin, canc>>

\* Mutant of ProcWritesRun: the terminal update is left to somebody else.
ProcWritesRun_Skipped(r) ==
  /\ proc[r] = "update"
  /\ proc' = [proc EXCEPT ![r] = "finalize"]
  /\ UNCHANGED <<lock, otid, run, admission, stream, pstop, fin, canc>>

ProcWritesRun(r) ==
  /\ proc[r] = "update"
  /\ WriteRun(r, RunStatusOf(pstop[r]), pstop[r])
  /\ proc' = [proc EXCEPT ![r] = "finalize"]
  /\ UNCHANGED <<lock, otid, admission, stream, pstop, fin, canc>>

ProcMarksComplete(r) ==
  /\ proc[r] = "finalize"
  /\ proc' = [proc EXCEPT ![r] = "done"]
  /\ UNCHANGED <<lock, otid, run, admission, stream, pstop, fin, canc>>

Processor(r) ==
  \/ ProcStarts(r) \/ StreamFinishes(r) \/ StreamRaises(r) \/ StreamCancelled(r)
  \/ ProcInterrupted(r) \/ ProcWriteFails(r) \/ ProcMarksFailed(r)
  \/ ProcStopsWriter(r) \/ ProcStopFails(r) \/ ProcReleases(r)
  \/ ProcWritesRun(r) \/ ProcMarksComplete(r)

-----------------------------------------------------------------------------
(* Foreground: the HTTP response iterates the stream to its end.            *)

ResponseStarts(r) ==
  /\ KindOf[r] = "foreground"
  /\ handler[r] = "returned"
  /\ stream[r] = "none"
  /\ stream' = [stream EXCEPT ![r] = "open"]
  /\ UNCHANGED <<lock, otid, run, admission, proc, pstop, fin, canc>>

Responding(r) == KindOf[r] = "foreground" /\ stream[r] \in {"open", "agent_cancel"}

(* Every stop reason but "cancelled" is recorded with status completed.     *)
ResponseFinishes(r) ==
  /\ Responding(r)
  /\ CloseStream(r)
  /\ \E s \in StopsFrom(r) :
       ArmFin(r, IF s = "cancelled" THEN "cancelled" ELSE "completed", s)
  /\ UNCHANGED <<lock, otid, run, admission, proc, pstop, canc>>

(* The agent raises, or the server task is cancelled before [DONE].         *)
ResponseFails(r) ==
  /\ Responding(r)
  /\ CloseStream(r)
  /\ \/ "raise" \in Faults /\ ArmFin(r, "failed", "llm_api_error")
     \/ "interrupt" \in Faults /\ ArmFin(r, "failed", "error")
  /\ UNCHANGED <<lock, otid, run, admission, proc, pstop, canc>>

(* RunCancelledException: run_status stays None, so the finally block does  *)
(* not call update_run_by_id_async and releases nothing.                    *)
ResponseCancelled(r) ==
  /\ KindOf[r] = "foreground"
  /\ stream[r] = "wrapper_cancel"
  /\ CloseStream(r)
  /\ SkipFin(r)
  /\ UNCHANGED <<lock, otid, run, admission, proc, pstop, canc>>

\* Mutant of FinWritesRun: the default status is completed.
FinWritesRun_Completed(r) ==
  /\ fin[r].at = "write"
  /\ WriteRun(r, "completed", fin[r].stop)
  /\ fin' = [fin EXCEPT ![r].at = "release"]
  /\ UNCHANGED <<lock, otid, admission, stream, proc, pstop, canc>>

(* error_aware_stream's finally block, with the lock key.                   *)
FinWritesRun(r) ==
  /\ fin[r].at = "write"
  /\ WriteRun(r, fin[r].status, fin[r].stop)
  /\ fin' = [fin EXCEPT ![r].at = "release"]
  /\ UNCHANGED <<lock, otid, admission, stream, proc, pstop, canc>>

\* Mutant of FinReleases: release keyed by the run's conversation, which an
\* agent-direct run does not have.
FinReleases_ByConversation(r) ==
  /\ fin[r].at = "release"
  /\ IF r \in Direct THEN UNCHANGED lock ELSE ReleaseLock(r)
  /\ fin' = [fin EXCEPT ![r].at = "done"]
  /\ UNCHANGED <<otid, run, admission, stream, proc, pstop, canc>>

FinReleases(r) ==
  /\ fin[r].at = "release"
  /\ ReleaseLock(r)
  /\ fin' = [fin EXCEPT ![r].at = "done"]
  /\ UNCHANGED <<otid, run, admission, stream, proc, pstop, canc>>

Response(r) ==
  \/ ResponseStarts(r) \/ ResponseFinishes(r) \/ ResponseFails(r) \/ ResponseCancelled(r)
  \/ FinWritesRun(r) \/ FinReleases(r)

-----------------------------------------------------------------------------
(* RunManager.cancel_run: the guard is evaluated on a row read before the   *)
(* agent's messages are fetched, the write happens after.                   *)
CancelReads(r) ==
  /\ "cancel" \in Faults
  /\ canc[r] = "idle"
  /\ run[r].status # NoRun
  /\ run[r].stop \in {NoStop, "requires_approval"}
  /\ canc' = [canc EXCEPT ![r] = "write"]
  /\ UNCHANGED <<lock, otid, run, admission, stream, proc, pstop, fin>>

CancelWrites(r) ==
  /\ canc[r] = "write"
  /\ WriteRun(r, "cancelled", "cancelled")
  /\ canc' = [canc EXCEPT ![r] = IF r \in Direct THEN "done" ELSE "release"]
  /\ UNCHANGED <<lock, otid, admission, stream, proc, pstop, fin>>

CancelReleases(r) ==
  /\ canc[r] = "release"
  /\ ReleaseLock(r)
  /\ canc' = [canc EXCEPT ![r] = "done"]
  /\ UNCHANGED <<otid, run, admission, stream, proc, pstop, fin>>

Cancellation(r) == CancelReads(r) \/ CancelWrites(r) \/ CancelReleases(r)

(* CONVERSATION_LOCK_TTL_SECONDS passes; nothing renews the lock.           *)
LockExpires(k) ==
  /\ "expire" \in Faults
  /\ lock[k] # NoReq
  /\ lock' = [lock EXCEPT ![k] = NoReq]
  /\ UNCHANGED <<otid, run, admission, stream, proc, pstop, fin, canc>>

Next ==
  \/ \E r \in Req : Admission(r) \/ Processor(r) \/ Response(r)
                    \/ Cancellation(r) \/ SeesCancel(r)
  \/ \E k \in Key : LockExpires(k)

Spec == Init /\ [][Next]_vars

(* Every coroutine of a live server is eventually scheduled, LLM calls time *)
(* out and max_steps bounds the agent loop; cancellations, faults and the   *)
(* TTL are never owed.                                                      *)
Fairness ==
  \A r \in Req :
    /\ WF_vars(Admission(r))
    /\ WF_vars(Processor(r))
    /\ WF_vars(Response(r))
    /\ WF_vars(CancelWrites(r) \/ CancelReleases(r))

FairSpec == Spec /\ Fairness

-----------------------------------------------------------------------------
Processing(r) == stream[r] \in {"open", "agent_cancel", "wrapper_cancel"}

(* Where r stands with the lock of its key.                                 *)
Phase(r) ==
  CASE Processing(r) -> "working"
    [] lock[KeyOf[r]] = r /\ stream[r] = "none" -> "holding"
    [] lock[KeyOf[r]] = r /\ stream[r] = "closed" -> "stopped"
    [] handler[r] \in {"start", "acquire", "holder", "retry", "recovered", "busy"} -> "waiting"
    [] OTHER -> "finished"

PhaseOf == [r \in Req |-> Phase(r)]

Lock == INSTANCE ConversationLock WITH holder <- lock, phase <- PhaseOf

(* Nothing of r is left to run in the server.                               *)
Settled(r) ==
  /\ handler[r] \in Answered
  /\ proc[r] \in {"none", "done", "dead"}
  /\ ~Processing(r)
  /\ fin[r].at \in {"none", "done", "skipped"}
  /\ canc[r] \in {"idle", "done"}
  /\ ~(KindOf[r] = "foreground" /\ handler[r] = "returned" /\ stream[r] = "none")

(* Two requests with the same lock key never have the agent loop running at *)
(* the same time: the lock "prevents concurrent message processing for the  *)
(* same conversation/agent" (streaming_service.py).  It depends on nobody   *)
(* deleting a lock another request took: see Faults in the configurations.  *)
MutualExclusion ==
  \A r1, r2 \in Req :
    Processing(r1) /\ Processing(r2) /\ KeyOf[r1] = KeyOf[r2] => r1 = r2

(* The only ways to leave the conversation locked until the TTL: the run    *)
(* insert failed, the processor's last flush raised, or an agent-direct     *)
(* foreground stream was interrupted by a cancellation.                     *)
LeakCause(r) ==
  \/ run[r].status = NoRun
  \/ proc[r] = "dead"
  \/ r \in Direct /\ KindOf[r] = "foreground" /\ fin[r].at = "skipped"

(* When nothing of a request is left to run, the lock does not hold its     *)
(* token, whatever order the handler, the processor, the stream finaliser   *)
(* and the cancellation ran in, unless one of the three causes is there.    *)
NoLockLeak ==
  \A r \in Req : Settled(r) /\ lock[KeyOf[r]] = r => LeakCause(r)

(* For background runs the recorded status is the canonical status of the   *)
(* recorded stop reason, or the late write of the request handler.          *)
StatusFollowsStop ==
  \A r \in Req :
    KindOf[r] = "background" /\ run[r].stop # NoStop =>
      \/ run[r].status = RunStatusOf(run[r].stop)
      \/ handler[r] \in {"returned", "release", "failed"} /\ run[r].status = plan[r]

(* The handlers, processors and responses of one key implement the          *)
(* conversation lock: a request gets it only when it is free, runs its loop *)
(* once and under it, and the DEL, which asks for no owner, finds no other  *)
(* request's lock.  It depends on Faults as MutualExclusion does.           *)
ImplementsConversationLock == Lock!Spec

(* A retry answered by recovery is attached to a run that exists and was    *)
(* created for the same messages.                                           *)
RecoveryFindsRun ==
  \A r \in Req : handler[r] = "recovered" =>
    LET source == otid[TokenOf[r]]
    IN source # NoReq /\ TokenOf[source] = TokenOf[r] /\ run[source].status # NoRun

(* "don't override run status if it has already been updated": a run that   *)
(* reached a terminal status is never moved back to a live one.             *)
TerminalStays ==
  [][\A r \in Req : run[r].status \in Terminal => run'[r].status \in Terminal]_vars

(* Every request is answered: created, recovered, refused or failed.        *)
EveryRequestAnswered ==
  \A r \in Req : <>(handler[r] \in Answered)

(* Every streamed run eventually records an outcome: a stop reason, or the  *)
(* failure of its handler, or its processor died with the writer.           *)
EveryRunConcludes ==
  \A r \in Req :
    KindOf[r] # "sync" /\ run[r].status # NoRun ~>
      \/ run[r].stop # NoStop
      \/ run[r].status = "failed"
      \/ proc[r] = "dead"

(* A recovered retry polls the Redis stream of the mapped run, so that run  *)
(* must have a processor that eventually appends a terminal chunk.          *)
RecoveredStreamTerminates ==
  \A r \in Req :
    handler[r] = "recovered" ~>
      \E source \in Req :
        TokenOf[source] = TokenOf[r] /\ proc[source] \in {"done", "dead"}
=============================================================================
