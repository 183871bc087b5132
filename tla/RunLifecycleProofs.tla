------------------------- MODULE RunLifecycleProofs -------------------------
(* Theorems about RunLifecycle for every set of requests, keys, tokens,     *)
(* kinds and faults; LockRefines shows that it implements ConversationLock  *)
(* when only the owner of a lock releases it.                               *)
EXTENDS RunLifecycle, TLAPS

(* TypeOK is not inductive alone: a handler about to write has decided what *)
(* to write, and one that may still look again has looked less than three   *)
(* times.                                                                   *)
TypeInv ==
  /\ TypeOK
  /\ \A r \in Req : handler[r] = "write" => plan[r] # "none"
  /\ \A r \in Req : handler[r] \in {"start", "acquire", "holder", "retry"} => tries[r] <= 2

(* run_status maps every stop reason to a status. *)
LEMMA RunStatusOfType ==
  ASSUME NEW s \in StopReason \cup {NoStop}
  PROVE  RunStatusOf(s) \in RunStatus
  BY DEF RunStatusOf, StopReason, NoStop, RunStatus

(* A run row written with a status and a stop reason is well typed. *)
LEMMA WriteRunType ==
  ASSUME TypeInv, NEW r \in Req,
         NEW status \in RunStatus \cup {NoRun}, NEW stop \in StopReason \cup {NoStop},
         WriteRun(r, status, stop)
  PROVE  run' \in [Req -> [status : RunStatus \cup {NoRun}, stop : StopReason \cup {NoStop}]]
  BY DEF TypeInv, TypeOK, WriteRun

(* The initial states are well typed. *)
LEMMA TypeInit == Init => TypeInv
  BY RequestAssumption
  DEF Init, TypeInv, TypeOK, NoFin, HandlerPoint, StreamState, ProcPoint, FinPoint,
      CancPoint, NoRun, NoStop

(* Admission keeps the types. *)
LEMMA TypeAdmission ==
  ASSUME TypeInv, NEW r \in Req, Admission(r)
  PROVE  TypeInv'
<1> USE RequestAssumption DEF TypeInv, TypeOK, admission, Goto, HandlerPoint
<1>1. CASE Arrive(r)  BY <1>1 DEF Arrive
<1>2. CASE AcquireLock(r)
  <2>1. lock' \in [Key -> Req \cup {NoReq}]  BY <1>2 DEF AcquireLock
  <2> QED  BY <1>2, <2>1 DEF AcquireLock
<1>3. CASE AcquireFails(r)  BY <1>3 DEF AcquireFails
<1>4. CASE ReadHolder(r)  BY <1>4 DEF ReadHolder
<1>5. CASE SecondChance(r)
  <2>1. CASE otid[TokenOf[r]] # NoReq  BY <1>5, <2>1 DEF SecondChance
  <2>2. CASE otid[TokenOf[r]] = NoReq
    <3>1. tries[r] \in 0..2  BY <1>5 DEF SecondChance
    <3>2. tries' = [tries EXCEPT ![r] = tries[r] + 1]  BY <1>5, <2>2 DEF SecondChance
    <3>3. handler' = [handler EXCEPT ![r] = IF tries[r] = 2 THEN "busy" ELSE "retry"]
      BY <1>5, <2>2 DEF SecondChance
    <3>4. /\ tries' \in [Req -> 0..3]
          /\ handler' \in [Req -> HandlerPoint]
      BY <3>1, <3>2, <3>3
    <3>5. \A q \in Req : handler'[q] \in {"start", "acquire", "holder", "retry"} => tries'[q] <= 2
      BY <3>1, <3>2, <3>3
    <3>6. \A q \in Req : handler'[q] = "write" => plan'[q] # "none"
      BY <1>5, <3>3 DEF SecondChance
    <3> QED  BY <1>5, <3>4, <3>5, <3>6 DEF SecondChance
  <2> QED  BY <2>1, <2>2
<1>6. CASE CreateRun(r)  BY <1>6 DEF CreateRun, RunStatus
<1>7. CASE CreateRunFails(r)  BY <1>7 DEF CreateRunFails
<1>8. CASE StoreMapping(r)  BY <1>8 DEF StoreMapping, StreamState
<1>9. CASE SpawnStream(r)  BY <1>9 DEF SpawnStream, ProcPoint
<1>10. CASE RefetchRun(r)  BY <1>10 DEF RefetchRun
<1>11. CASE HandlerRaises(r)  BY <1>11 DEF HandlerRaises
<1>12. CASE HandlerWritesRun(r)
  <2>1. plan[r] \in RunStatus  BY <1>12 DEF HandlerWritesRun, RunStatus
  <2>2. run' \in [Req -> [status : RunStatus \cup {NoRun}, stop : StopReason \cup {NoStop}]]
    BY <1>12, <2>1, WriteRunType DEF HandlerWritesRun
  <2> QED  BY <1>12, <2>2 DEF HandlerWritesRun
<1>13. CASE HandlerReleases(r)  BY <1>13 DEF HandlerReleases, ReleaseLock
<1>14. CASE SyncStepEnds(r)  BY <1>14 DEF SyncStepEnds, StreamState
<1>15. CASE SyncReleases(r)  BY <1>15 DEF SyncReleases, ReleaseLock
<1> QED
  BY <1>1, <1>2, <1>3, <1>4, <1>5, <1>6, <1>7, <1>8, <1>9, <1>10, <1>11, <1>12,
     <1>13, <1>14, <1>15 DEF Admission

(* Every stop reason the stream may end with is a stop reason. *)
LEMMA StopsFromType ==
  ASSUME NEW r \in Req
  PROVE  /\ StopsFrom(r) \subseteq StopReason
         /\ AgentStops \subseteq StopReason
         /\ {"cancelled", "error", "llm_api_error"} \subseteq StopReason
  BY RequestAssumption DEF StopsFrom, StopReason

(* Leaving the processor's try block keeps the types it touches. *)
LEMMA LeaveType ==
  ASSUME TypeInv, NEW r \in Req, NEW point \in ProcPoint, NEW stop \in StopReason,
         Leave(r, point, stop)
  PROVE  /\ proc' \in [Req -> ProcPoint]
         /\ pstop' \in [Req -> StopReason \cup {NoStop}]
         /\ stream' \in [Req -> StreamState]
  BY DEF TypeInv, TypeOK, Leave, CloseStream, StreamState

(* The finaliser's record keeps its type. *)
LEMMA FinType ==
  ASSUME TypeInv, NEW r \in Req
  PROVE  /\ SkipFin(r) =>
              fin' \in [Req -> [at : FinPoint, status : RunStatus \cup {NoRun},
                                stop : StopReason \cup {NoStop}]]
         /\ \A status \in RunStatus, stop \in StopReason : ArmFin(r, status, stop) =>
              fin' \in [Req -> [at : FinPoint, status : RunStatus \cup {NoRun},
                                stop : StopReason \cup {NoStop}]]
<1>1. ASSUME SkipFin(r)
      PROVE  fin' \in [Req -> [at : FinPoint, status : RunStatus \cup {NoRun},
                               stop : StopReason \cup {NoStop}]]
  BY <1>1 DEF TypeInv, TypeOK, SkipFin, FinPoint
<1>2. ASSUME NEW status \in RunStatus, NEW stop \in StopReason, ArmFin(r, status, stop)
      PROVE  fin' \in [Req -> [at : FinPoint, status : RunStatus \cup {NoRun},
                               stop : StopReason \cup {NoStop}]]
  BY <1>2 DEF TypeInv, TypeOK, ArmFin, FinPoint
<1> QED  BY <1>1, <1>2

(* The processor keeps the types. *)
LEMMA TypeProcessor ==
  ASSUME TypeInv, NEW r \in Req, Processor(r)
  PROVE  TypeInv'
<1> USE DEF TypeInv, TypeOK, admission
<1> ProcPoint = {"none", "spawned", "streaming", "failing", "stop", "release",
                 "update", "finalize", "done", "dead"}
  BY DEF ProcPoint
<1>1. CASE ProcStarts(r)  BY <1>1 DEF ProcStarts, StreamState
<1>2. CASE StreamFinishes(r)
  <2>1. PICK s \in StopsFrom(r) : Leave(r, "stop", s)  BY <1>2 DEF StreamFinishes
  <2> QED  BY <1>2, <2>1, StopsFromType, LeaveType, FinType DEF StreamFinishes
<1>3. CASE StreamRaises(r)
  BY <1>3, StopsFromType, LeaveType, FinType DEF StreamRaises, RunStatus
<1>4. CASE StreamCancelled(r)
  <2>1. PICK s \in AgentStops \cup {"cancelled"} : Leave(r, "stop", s)
    BY <1>4 DEF StreamCancelled
  <2>2. s \in StopReason  BY StopsFromType
  <2> QED  BY <1>4, <2>1, <2>2, LeaveType, FinType DEF StreamCancelled
<1>5. CASE ProcInterrupted(r)
  BY <1>5, StopsFromType, LeaveType, FinType DEF ProcInterrupted
<1>6. CASE ProcWriteFails(r)
  <2>1. PICK point \in {"failing", "stop"} : Leave(r, point, "error")
    BY <1>6 DEF ProcWriteFails
  <2> QED  BY <1>6, <2>1, StopsFromType, LeaveType, FinType DEF ProcWriteFails
<1>7. CASE ProcMarksFailed(r)
  <2>1. run' \in [Req -> [status : RunStatus \cup {NoRun}, stop : StopReason \cup {NoStop}]]
    BY <1>7, WriteRunType, StopsFromType DEF ProcMarksFailed, RunStatus
  <2> QED  BY <1>7, <2>1 DEF ProcMarksFailed
<1>8. CASE ProcStopsWriter(r)  BY <1>8 DEF ProcStopsWriter
<1>9. CASE ProcStopFails(r)  BY <1>9 DEF ProcStopFails
<1>10. CASE ProcReleases(r)  BY <1>10 DEF ProcReleases, ReleaseLock
<1>11. CASE ProcWritesRun(r)
  <2>1. run' \in [Req -> [status : RunStatus \cup {NoRun}, stop : StopReason \cup {NoStop}]]
    BY <1>11, WriteRunType, RunStatusOfType DEF ProcWritesRun
  <2> QED  BY <1>11, <2>1 DEF ProcWritesRun
<1>12. CASE ProcMarksComplete(r)  BY <1>12 DEF ProcMarksComplete
<1> QED
  BY <1>1, <1>2, <1>3, <1>4, <1>5, <1>6, <1>7, <1>8, <1>9, <1>10, <1>11, <1>12
  DEF Processor

(* The foreground response and the stream finaliser keep the types. *)
LEMMA TypeResponse ==
  ASSUME TypeInv, NEW r \in Req, Response(r)
  PROVE  TypeInv'
<1> USE DEF TypeInv, TypeOK, admission
<1>1. CASE ResponseStarts(r)  BY <1>1 DEF ResponseStarts, StreamState
<1>2. CASE ResponseFinishes(r)
  <2>1. PICK s \in StopsFrom(r) :
          ArmFin(r, IF s = "cancelled" THEN "cancelled" ELSE "completed", s)
    BY <1>2 DEF ResponseFinishes
  <2> QED  BY <1>2, <2>1, StopsFromType, FinType
           DEF ResponseFinishes, CloseStream, StreamState, RunStatus
<1>3. CASE ResponseFails(r)
  BY <1>3, StopsFromType, FinType DEF ResponseFails, CloseStream, StreamState, RunStatus
<1>4. CASE ResponseCancelled(r)
  BY <1>4, FinType DEF ResponseCancelled, CloseStream, StreamState
<1>5. CASE FinWritesRun(r)
  <2>1. run' \in [Req -> [status : RunStatus \cup {NoRun}, stop : StopReason \cup {NoStop}]]
    BY <1>5, WriteRunType DEF FinWritesRun
  <2> QED  BY <1>5, <2>1 DEF FinWritesRun, FinPoint
<1>6. CASE FinReleases(r)  BY <1>6 DEF FinReleases, ReleaseLock, FinPoint
<1> QED  BY <1>1, <1>2, <1>3, <1>4, <1>5, <1>6 DEF Response

(* Cancellation, its detection and the expiry of the lock keep the types. *)
LEMMA TypeCancellation ==
  ASSUME TypeInv, NEW r \in Req, Cancellation(r) \/ SeesCancel(r)
  PROVE  TypeInv'
<1> USE DEF TypeInv, TypeOK, admission
<1>1. CASE CancelReads(r)  BY <1>1 DEF CancelReads, CancPoint
<1>2. CASE CancelWrites(r)
  <2>1. run' \in [Req -> [status : RunStatus \cup {NoRun}, stop : StopReason \cup {NoStop}]]
    BY <1>2, WriteRunType, StopsFromType DEF CancelWrites, RunStatus
  <2> QED  BY <1>2, <2>1 DEF CancelWrites, CancPoint
<1>3. CASE CancelReleases(r)  BY <1>3 DEF CancelReleases, ReleaseLock, CancPoint
<1>4. CASE AgentSeesCancel(r)  BY <1>4 DEF AgentSeesCancel, StreamState
<1>5. CASE WrapperSeesCancel(r)  BY <1>5 DEF WrapperSeesCancel, StreamState
<1> QED  BY <1>1, <1>2, <1>3, <1>4, <1>5 DEF Cancellation, SeesCancel

(* Every step keeps the types. *)
LEMMA TypeStep == TypeInv /\ [Next]_vars => TypeInv'
<1> SUFFICES ASSUME TypeInv, [Next]_vars  PROVE TypeInv'  OBVIOUS
<1>1. ASSUME NEW r \in Req, Admission(r)  PROVE TypeInv'  BY <1>1, TypeAdmission
<1>2. ASSUME NEW r \in Req, Processor(r)  PROVE TypeInv'  BY <1>2, TypeProcessor
<1>3. ASSUME NEW r \in Req, Response(r)  PROVE TypeInv'  BY <1>3, TypeResponse
<1>4. ASSUME NEW r \in Req, Cancellation(r) \/ SeesCancel(r)  PROVE TypeInv'
  BY <1>4, TypeCancellation
<1>5. ASSUME NEW k \in Key, LockExpires(k)  PROVE TypeInv'
  BY <1>5 DEF LockExpires, TypeInv, TypeOK, admission
<1>6. CASE UNCHANGED vars  BY <1>6 DEF vars, admission, TypeInv, TypeOK
<1> QED  BY <1>1, <1>2, <1>3, <1>4, <1>5, <1>6 DEF Next

(* The variables keep their types: in particular a second-chance retry      *)
(* never looks more than three times, and no undecided status is written.   *)
THEOREM TypeCorrect == Spec => []TypeOK
<1>1. Init => TypeInv  BY TypeInit
<1>2. TypeInv /\ [Next]_vars => TypeInv'  BY TypeStep
<1>3. TypeInv => TypeOK  BY DEF TypeInv
<1> QED  BY <1>1, <1>2, <1>3, PTL DEF Spec

-----------------------------------------------------------------------------
(* How the program points of one request fit together.                      *)

NotYetRun == {"start", "acquire", "holder", "retry", "busy", "recovered", "create"}
NotYetSpawned == NotYetRun \cup {"map", "spawn"}

Shape(r) ==
  /\ KindOf[r] # "background" => proc[r] = "none"
  /\ handler[r] \in NotYetSpawned => proc[r] = "none" /\ stream[r] = "none"
  /\ KindOf[r] = "background" /\ proc[r] \in {"none", "spawned"} => stream[r] = "none"
  /\ KindOf[r] = "background" /\ Processing(r) => proc[r] = "streaming"
  /\ KindOf[r] = "foreground" /\ handler[r] # "returned" => stream[r] = "none"
  /\ KindOf[r] = "sync" /\ Processing(r) => handler[r] = "step"
  /\ KindOf[r] = "sync" => fin[r].at = "none" /\ handler[r] \notin {"spawn", "refetch", "write"}
  /\ handler[r] \in {"step", "unlock"} => KindOf[r] = "sync"
  /\ fin[r].at # "none" => stream[r] = "closed"
  /\ fin[r].at = "write" => fin[r].status # NoRun
  /\ KindOf[r] = "background" /\ handler[r] \in {"refetch", "returned"} => proc[r] # "none"
  /\ KindOf[r] = "background" /\ handler[r] = "write" /\ plan[r] = "running" => proc[r] # "none"
  /\ handler[r] \in NotYetRun => run[r].status = NoRun /\ canc[r] = "idle"
  /\ canc[r] # "idle" => run[r].status # NoRun

AllShaped == \A r \in Req : Shape(r)
ShapeInv == TypeInv /\ AllShaped

(* Who will still release the lock of r.                                    *)
Pending(r) ==
  \/ handler[r] \in {"create", "map", "spawn", "refetch", "write", "release", "step", "unlock"}
  \/ proc[r] \in {"spawned", "streaming", "failing", "stop", "release"}
  \/ KindOf[r] = "foreground" /\ handler[r] = "returned" /\ stream[r] = "none"
  \/ KindOf[r] = "foreground" /\ Processing(r)
  \/ fin[r].at \in {"write", "release"}
  \/ canc[r] = "release"

(* The lock of r is held only while somebody will release it or a cause of  *)
(* a leak is there; a processor or a cancellation past its release has left *)
(* no lock behind; a foreground stream sees a cancellation only when the    *)
(* cancellation has written, so that its release is still to come or done.  *)
NoStrayLock ==
  \A r \in Req :
     /\ lock[KeyOf[r]] = r => Pending(r) \/ LeakCause(r)
     /\ proc[r] \in {"update", "finalize", "done"} => lock[KeyOf[r]] # r
     /\ canc[r] = "done" /\ r \notin Direct => lock[KeyOf[r]] # r
     /\ KindOf[r] = "foreground" /\ stream[r] = "wrapper_cancel" => canc[r] \in {"release", "done"}
     /\ KindOf[r] = "foreground" /\ run[r].status = "cancelled" /\ stream[r] # "closed"
          => canc[r] \in {"release", "done"}

LeakInv == ShapeInv /\ NoStrayLock

(* A request owns the lock from SET NX to its one release.                  *)
Owns(r) ==
  \/ handler[r] \in {"create", "map", "spawn", "step", "unlock"}
  \/ proc[r] \in {"spawned", "streaming", "failing", "stop", "release"}
  \/ /\ KindOf[r] = "foreground"
     /\ handler[r] \in {"refetch", "write", "returned"}
     /\ fin[r].at \in {"none", "write", "release"}

(* Without agent exceptions, handler failures, cancellations and expiry     *)
(* nobody but its owner releases a lock.                                    *)
OnlyOwnersRelease == Faults \cap {"raise", "load", "cancel", "expire"} = {}

OwnersHold ==
  \A r \in Req :
     /\ Owns(r) => lock[KeyOf[r]] = r
     /\ KindOf[r] = "background" => fin[r].at \in {"none", "skipped"}
     /\ plan[r] # "failed" /\ handler[r] # "release" /\ canc[r] = "idle"

ExclusionInv == ShapeInv /\ OwnersHold

(* The initial states have the shape. *)
LEMMA ShapeInit == Init => ShapeInv
<1> SUFFICES ASSUME Init  PROVE ShapeInv  OBVIOUS
<1>1. TypeInv  BY TypeInit
<1>2. \A r \in Req : Shape(r)
  BY DEF Init, Shape, NotYetRun, NotYetSpawned, Processing, NoFin, NoRun
<1> QED  BY <1>1, <1>2 DEF ShapeInv, AllShaped

(* Admission keeps the shape. *)
LEMMA ShapeAdmission ==
  ASSUME ShapeInv, NEW r \in Req, Admission(r)
  PROVE  AllShaped'
<1> USE DEF ShapeInv, AllShaped, TypeInv, TypeOK, admission, Shape, NotYetRun, NotYetSpawned, Processing
<1>1. CASE Arrive(r)  BY <1>1, RequestAssumption DEF Arrive, Goto
<1>2. CASE AcquireLock(r)  BY <1>2 DEF AcquireLock, Goto
<1>3. CASE AcquireFails(r)  BY <1>3 DEF AcquireFails, Goto
<1>4. CASE ReadHolder(r)  BY <1>4, RequestAssumption DEF ReadHolder, Goto
<1>5. CASE SecondChance(r)  BY <1>5 DEF SecondChance, Goto
<1>6. CASE CreateRun(r)  BY <1>6 DEF CreateRun, Goto, NoRun
<1>7. CASE CreateRunFails(r)  BY <1>7, RequestAssumption DEF CreateRunFails, Goto
<1>8. CASE StoreMapping(r)  BY <1>8, RequestAssumption DEF StoreMapping, Goto
<1>9. CASE SpawnStream(r)  BY <1>9, RequestAssumption DEF SpawnStream, Goto
<1>10. CASE RefetchRun(r)  BY <1>10 DEF RefetchRun, Goto
<1>11. CASE HandlerRaises(r)  BY <1>11 DEF HandlerRaises, Goto
<1>12. CASE HandlerWritesRun(r)  BY <1>12 DEF HandlerWritesRun, Goto, WriteRun, Terminal, NoRun
<1>13. CASE HandlerReleases(r)  BY <1>13 DEF HandlerReleases, Goto
<1>14. CASE SyncStepEnds(r)  BY <1>14 DEF SyncStepEnds, Goto
<1>15. CASE SyncReleases(r)  BY <1>15 DEF SyncReleases, Goto
<1> QED
  BY <1>1, <1>2, <1>3, <1>4, <1>5, <1>6, <1>7, <1>8, <1>9, <1>10, <1>11, <1>12,
     <1>13, <1>14, <1>15 DEF Admission

(* The processor keeps the shape. *)
LEMMA ShapeProcessor ==
  ASSUME ShapeInv, NEW r \in Req, Processor(r)
  PROVE  AllShaped'
<1> USE DEF ShapeInv, AllShaped, TypeInv, TypeOK, admission, Shape, NotYetRun, NotYetSpawned, Processing
<1>1. CASE ProcStarts(r)  BY <1>1 DEF ProcStarts
<1>2. CASE StreamFinishes(r)  BY <1>2 DEF StreamFinishes, Leave, CloseStream, SkipFin
<1>3. CASE StreamRaises(r)  BY <1>3 DEF StreamRaises, Leave, CloseStream, ArmFin, NoRun
<1>4. CASE StreamCancelled(r)  BY <1>4 DEF StreamCancelled, Leave, CloseStream, SkipFin
<1>5. CASE ProcInterrupted(r)  BY <1>5 DEF ProcInterrupted, Leave, CloseStream, SkipFin
<1>6. CASE ProcWriteFails(r)  BY <1>6 DEF ProcWriteFails, Leave, CloseStream, SkipFin
<1>7. CASE ProcMarksFailed(r)  BY <1>7 DEF ProcMarksFailed, WriteRun, NoRun
<1>8. CASE ProcStopsWriter(r)  BY <1>8 DEF ProcStopsWriter
<1>9. CASE ProcStopFails(r)  BY <1>9 DEF ProcStopFails
<1>10. CASE ProcReleases(r)  BY <1>10 DEF ProcReleases
<1>11. CASE ProcWritesRun(r)
  <2>1. RunStatusOf(pstop[r]) # NoRun  BY RunStatusOfType DEF NoRun, RunStatus
  <2> DEFINE s == RunStatusOf(pstop[r])
  <2> HIDE DEF s
  <2>2. s # NoRun  BY <2>1 DEF s
  <2>3. /\ WriteRun(r, s, pstop[r])
        /\ proc[r] = "update" /\ proc' = [proc EXCEPT ![r] = "finalize"]
        /\ UNCHANGED <<lock, otid, handler, tries, plan, stream, pstop, fin, canc>>
    BY <1>11 DEF ProcWritesRun, s
  <2> QED  BY <2>2, <2>3 DEF WriteRun
<1>12. CASE ProcMarksComplete(r)  BY <1>12 DEF ProcMarksComplete
<1> QED
  BY <1>1, <1>2, <1>3, <1>4, <1>5, <1>6, <1>7, <1>8, <1>9, <1>10, <1>11, <1>12 DEF Processor

(* The response keeps the shape. *)
LEMMA ShapeResponse ==
  ASSUME ShapeInv, NEW r \in Req, Response(r)
  PROVE  AllShaped'
<1> USE DEF ShapeInv, AllShaped, TypeInv, TypeOK, admission, Shape, NotYetRun, NotYetSpawned, Processing
<1>1. CASE ResponseStarts(r)  BY <1>1 DEF ResponseStarts
<1>2. CASE ResponseFinishes(r)  BY <1>2 DEF ResponseFinishes, Responding, CloseStream, ArmFin, NoRun
<1>3. CASE ResponseFails(r)  BY <1>3 DEF ResponseFails, Responding, CloseStream, ArmFin, NoRun
<1>4. CASE ResponseCancelled(r)  BY <1>4 DEF ResponseCancelled, CloseStream, SkipFin
<1>5. CASE FinWritesRun(r)  BY <1>5 DEF FinWritesRun, WriteRun
<1>6. CASE FinReleases(r)  BY <1>6 DEF FinReleases
<1> QED
  BY <1>1, <1>2, <1>3, <1>4, <1>5, <1>6 DEF Response

(* Cancellation keeps the shape. *)
LEMMA ShapeCancellation ==
  ASSUME ShapeInv, NEW r \in Req, Cancellation(r) \/ SeesCancel(r)
  PROVE  AllShaped'
<1> USE DEF ShapeInv, AllShaped, TypeInv, TypeOK, admission, Shape, NotYetRun, NotYetSpawned, Processing
<1>1. CASE CancelReads(r)  BY <1>1 DEF CancelReads
<1>2. CASE CancelWrites(r)  BY <1>2 DEF CancelWrites, WriteRun, NoRun
<1>3. CASE CancelReleases(r)  BY <1>3 DEF CancelReleases
<1>4. CASE AgentSeesCancel(r)  BY <1>4 DEF AgentSeesCancel
<1>5. CASE WrapperSeesCancel(r)  BY <1>5 DEF WrapperSeesCancel
<1> QED
  BY <1>1, <1>2, <1>3, <1>4, <1>5 DEF Cancellation, SeesCancel

(* Every step keeps the shape. *)
LEMMA ShapeStep == ShapeInv /\ [Next]_vars => ShapeInv'
<1> SUFFICES ASSUME ShapeInv, [Next]_vars  PROVE ShapeInv'  OBVIOUS
<1>1. TypeInv'  BY TypeStep DEF ShapeInv
<1>2. ASSUME NEW r \in Req, Admission(r)  PROVE AllShaped'
  BY <1>2, ShapeAdmission
<1>3. ASSUME NEW r \in Req, Processor(r)  PROVE AllShaped'
  BY <1>3, ShapeProcessor
<1>4. ASSUME NEW r \in Req, Response(r)  PROVE AllShaped'
  BY <1>4, ShapeResponse
<1>5. ASSUME NEW r \in Req, Cancellation(r) \/ SeesCancel(r)
      PROVE AllShaped'
  BY <1>5, ShapeCancellation
<1>6. ASSUME NEW k \in Key, LockExpires(k)  PROVE AllShaped'
  BY <1>6 DEF LockExpires, ShapeInv, AllShaped, Shape, Processing, admission
<1>7. ASSUME UNCHANGED vars  PROVE AllShaped'
  BY <1>7 DEF vars, ShapeInv, AllShaped, Shape, Processing, admission
<1>8. AllShaped'  BY <1>2, <1>3, <1>4, <1>5, <1>6, <1>7 DEF Next
<1> QED  BY <1>1, <1>8 DEF ShapeInv

-----------------------------------------------------------------------------
(* No lock is held without somebody left to release it.                     *)

(* Admission keeps the lock accounted for. *)
LEMMA LeakAdmission ==
  ASSUME LeakInv, NEW r \in Req, Admission(r)
  PROVE  NoStrayLock'
<1> USE RequestAssumption
    DEF ShapeInv, AllShaped, TypeInv, TypeOK, admission, Shape, NotYetRun, NotYetSpawned,
        Processing, Goto, LeakInv, NoStrayLock, Pending, LeakCause
<1>1. CASE Arrive(r)  BY <1>1 DEF Arrive
<1>2. CASE AcquireLock(r)  BY <1>2 DEF AcquireLock
<1>3. CASE AcquireFails(r)  BY <1>3 DEF AcquireFails
<1>4. CASE ReadHolder(r)  BY <1>4 DEF ReadHolder
<1>5. CASE SecondChance(r)  BY <1>5 DEF SecondChance
<1>6. CASE CreateRun(r)  BY <1>6 DEF CreateRun, NoRun
<1>7. CASE CreateRunFails(r)  BY <1>7 DEF CreateRunFails
<1>8. CASE StoreMapping(r)  BY <1>8 DEF StoreMapping
<1>9. CASE SpawnStream(r)  BY <1>9 DEF SpawnStream
<1>10. CASE RefetchRun(r)
  <2>1. CASE run[r].status = "created"  BY <1>10, <2>1 DEF RefetchRun, ProcPoint, Kind
  <2>2. CASE run[r].status # "created"
    <3>1. handler[r] = "refetch" /\ handler' = [handler EXCEPT ![r] = "returned"]
      BY <1>10, <2>2 DEF RefetchRun
    <3>2. KindOf[r] = "foreground" \/ proc[r] # "none"  BY <3>1 DEF Kind
    <3>3. lock[KeyOf[r]] = r => Pending(r)' \/ LeakCause(r)'
      BY <1>10, <3>1, <3>2 DEF RefetchRun, ProcPoint
    <3> QED  BY <1>10, <3>1, <3>3 DEF RefetchRun
  <2> QED  BY <2>1, <2>2
<1>11. CASE HandlerRaises(r)  BY <1>11 DEF HandlerRaises
<1>12. CASE HandlerWritesRun(r)
  <2>1. plan[r] \in {"running", "failed"}  BY <1>12 DEF HandlerWritesRun
  <2>2. CASE plan[r] = "running"
    BY <1>12, <2>2 DEF HandlerWritesRun, WriteRun, Terminal, NoRun, ProcPoint, Kind
  <2>3. CASE plan[r] = "failed"
    BY <1>12, <2>3 DEF HandlerWritesRun, WriteRun, Terminal, NoRun
  <2> QED  BY <2>1, <2>2, <2>3
<1>13. CASE HandlerReleases(r)  BY <1>13 DEF HandlerReleases, ReleaseLock
<1>14. CASE SyncStepEnds(r)  BY <1>14 DEF SyncStepEnds
<1>15. CASE SyncReleases(r)  BY <1>15 DEF SyncReleases, ReleaseLock
<1> QED
  BY <1>1, <1>2, <1>3, <1>4, <1>5, <1>6, <1>7, <1>8, <1>9, <1>10, <1>11, <1>12,
     <1>13, <1>14, <1>15 DEF Admission

(* The processor keeps the lock accounted for. *)
LEMMA LeakProcessor ==
  ASSUME LeakInv, NEW r \in Req, Processor(r)
  PROVE  NoStrayLock'
<1> USE RequestAssumption
    DEF ShapeInv, AllShaped, TypeInv, TypeOK, admission, Shape, NotYetRun, NotYetSpawned,
        Processing, Goto, LeakInv, NoStrayLock, Pending, LeakCause
<1>1. CASE ProcStarts(r)  BY <1>1 DEF ProcStarts
<1>2. CASE StreamFinishes(r)  BY <1>2 DEF StreamFinishes, Leave, CloseStream, SkipFin
<1>3. CASE StreamRaises(r)  BY <1>3 DEF StreamRaises, Leave, CloseStream, ArmFin, NoRun
<1>4. CASE StreamCancelled(r)  BY <1>4 DEF StreamCancelled, Leave, CloseStream, SkipFin
<1>5. CASE ProcInterrupted(r)  BY <1>5 DEF ProcInterrupted, Leave, CloseStream, SkipFin
<1>6. CASE ProcWriteFails(r)  BY <1>6 DEF ProcWriteFails, Leave, CloseStream, SkipFin
<1>7. CASE ProcMarksFailed(r)  BY <1>7 DEF ProcMarksFailed, WriteRun, NoRun
<1>8. CASE ProcStopsWriter(r)  BY <1>8 DEF ProcStopsWriter
<1>9. CASE ProcStopFails(r)  BY <1>9 DEF ProcStopFails
<1>10. CASE ProcReleases(r)  BY <1>10 DEF ProcReleases, ReleaseLock
<1>11. CASE ProcWritesRun(r)  BY <1>11 DEF ProcWritesRun, WriteRun, NoRun, RunStatus
<1>12. CASE ProcMarksComplete(r)  BY <1>12 DEF ProcMarksComplete
<1> QED
  BY <1>1, <1>2, <1>3, <1>4, <1>5, <1>6, <1>7, <1>8, <1>9, <1>10, <1>11, <1>12 DEF Processor

(* The response keeps the lock accounted for. *)
LEMMA LeakResponse ==
  ASSUME LeakInv, NEW r \in Req, Response(r)
  PROVE  NoStrayLock'
<1> USE RequestAssumption
    DEF ShapeInv, AllShaped, TypeInv, TypeOK, admission, Shape, NotYetRun, NotYetSpawned,
        Processing, Goto, LeakInv, NoStrayLock, Pending, LeakCause
<1>1. CASE ResponseStarts(r)  BY <1>1 DEF ResponseStarts
<1>2. CASE ResponseFinishes(r)  BY <1>2 DEF ResponseFinishes, Responding, CloseStream, ArmFin, NoRun
<1>3. CASE ResponseFails(r)  BY <1>3 DEF ResponseFails, Responding, CloseStream, ArmFin, NoRun
<1>4. CASE ResponseCancelled(r)  BY <1>4 DEF ResponseCancelled, CloseStream, SkipFin
<1>5. CASE FinWritesRun(r)  BY <1>5 DEF FinWritesRun, WriteRun
<1>6. CASE FinReleases(r)  BY <1>6 DEF FinReleases, ReleaseLock
<1> QED
  BY <1>1, <1>2, <1>3, <1>4, <1>5, <1>6 DEF Response

(* Cancellation keeps the lock accounted for. *)
LEMMA LeakCancellation ==
  ASSUME LeakInv, NEW r \in Req, Cancellation(r) \/ SeesCancel(r)
  PROVE  NoStrayLock'
<1> USE RequestAssumption
    DEF ShapeInv, AllShaped, TypeInv, TypeOK, admission, Shape, NotYetRun, NotYetSpawned,
        Processing, Goto, LeakInv, NoStrayLock, Pending, LeakCause
<1>1. CASE CancelReads(r)  BY <1>1 DEF CancelReads
<1>2. CASE CancelWrites(r)  BY <1>2 DEF CancelWrites, WriteRun, NoRun
<1>3. CASE CancelReleases(r)  BY <1>3 DEF CancelReleases, ReleaseLock
<1>4. CASE AgentSeesCancel(r)  BY <1>4 DEF AgentSeesCancel
<1>5. CASE WrapperSeesCancel(r)  BY <1>5 DEF WrapperSeesCancel
<1> QED
  BY <1>1, <1>2, <1>3, <1>4, <1>5 DEF Cancellation, SeesCancel


(* Every step keeps the lock accounted for. *)
LEMMA LeakStep == LeakInv /\ [Next]_vars => LeakInv'
<1> SUFFICES ASSUME LeakInv, [Next]_vars  PROVE LeakInv'  OBVIOUS
<1>1. ShapeInv'  BY ShapeStep DEF LeakInv
<1>2. ASSUME NEW r \in Req, Admission(r)  PROVE NoStrayLock'  BY <1>2, LeakAdmission
<1>3. ASSUME NEW r \in Req, Processor(r)  PROVE NoStrayLock'  BY <1>3, LeakProcessor
<1>4. ASSUME NEW r \in Req, Response(r)  PROVE NoStrayLock'  BY <1>4, LeakResponse
<1>5. ASSUME NEW r \in Req, Cancellation(r) \/ SeesCancel(r)  PROVE NoStrayLock'
  BY <1>5, LeakCancellation
<1>6. ASSUME NEW k \in Key, LockExpires(k)  PROVE NoStrayLock'
  BY <1>6, RequestAssumption
  DEF LockExpires, ShapeInv, TypeInv, TypeOK, admission, LeakInv, NoStrayLock, Pending, LeakCause, Processing
<1>7. ASSUME UNCHANGED vars  PROVE NoStrayLock'
  BY <1>7 DEF vars, admission, LeakInv, NoStrayLock, Pending, LeakCause, Processing
<1>8. NoStrayLock'  BY <1>2, <1>3, <1>4, <1>5, <1>6, <1>7 DEF Next
<1> QED  BY <1>1, <1>8 DEF LeakInv

(* For any requests, of any kinds, and any faults: when nothing of a        *)
(* request is left to run, the conversation is not locked by it unless the  *)
(* run insert failed, the processor died in its last flush, or an           *)
(* agent-direct foreground stream was cancelled.                            *)
THEOREM LocksAreReturned == Spec => []NoLockLeak
<1>1. Init => LeakInv
  <2> SUFFICES ASSUME Init  PROVE LeakInv  OBVIOUS
  <2>1. ShapeInv  BY ShapeInit
  <2>2. NoStrayLock
    BY RequestAssumption DEF Init, NoStrayLock, Pending, LeakCause, NoRun
  <2> QED  BY <2>1, <2>2 DEF LeakInv
<1>2. LeakInv /\ [Next]_vars => LeakInv'  BY LeakStep
<1>3. LeakInv => NoLockLeak
  BY DEF LeakInv, NoStrayLock, NoLockLeak, Settled, Answered, Pending
<1> QED  BY <1>1, <1>2, <1>3, PTL DEF Spec

-----------------------------------------------------------------------------
(* The owner of a lock holds it.                                            *)

(* Admission keeps owners holding. *)
LEMMA ExclusionAdmission ==
  ASSUME OnlyOwnersRelease, ExclusionInv, NEW r \in Req, Admission(r)
  PROVE  OwnersHold'
<1> USE RequestAssumption
    DEF ShapeInv, AllShaped, TypeInv, TypeOK, admission, Shape, NotYetRun, NotYetSpawned,
        Processing, Goto, ExclusionInv, OwnersHold, Owns, OnlyOwnersRelease
<1>1. CASE Arrive(r)  BY <1>1 DEF Arrive
<1>2. CASE AcquireLock(r)  BY <1>2 DEF AcquireLock
<1>3. CASE AcquireFails(r)  BY <1>3 DEF AcquireFails
<1>4. CASE ReadHolder(r)  BY <1>4 DEF ReadHolder
<1>5. CASE SecondChance(r)  BY <1>5 DEF SecondChance
<1>6. CASE CreateRun(r)  BY <1>6 DEF CreateRun, NoRun
<1>7. CASE CreateRunFails(r)  BY <1>7 DEF CreateRunFails
<1>8. CASE StoreMapping(r)  BY <1>8 DEF StoreMapping
<1>9. CASE SpawnStream(r)  BY <1>9 DEF SpawnStream
<1>10. CASE RefetchRun(r)  BY <1>10 DEF RefetchRun
<1>11. CASE HandlerRaises(r)  BY <1>11 DEF HandlerRaises
<1>12. CASE HandlerWritesRun(r)  BY <1>12 DEF HandlerWritesRun, WriteRun, Terminal, NoRun
<1>13. CASE HandlerReleases(r)  BY <1>13 DEF HandlerReleases, ReleaseLock
<1>14. CASE SyncStepEnds(r)  BY <1>14 DEF SyncStepEnds
<1>15. CASE SyncReleases(r)  BY <1>15 DEF SyncReleases, ReleaseLock
<1> QED
  BY <1>1, <1>2, <1>3, <1>4, <1>5, <1>6, <1>7, <1>8, <1>9, <1>10, <1>11, <1>12,
     <1>13, <1>14, <1>15 DEF Admission

(* The processor keeps owners holding. *)
LEMMA ExclusionProcessor ==
  ASSUME OnlyOwnersRelease, ExclusionInv, NEW r \in Req, Processor(r)
  PROVE  OwnersHold'
<1> USE RequestAssumption
    DEF ShapeInv, AllShaped, TypeInv, TypeOK, admission, Shape, NotYetRun, NotYetSpawned,
        Processing, Goto, ExclusionInv, OwnersHold, Owns, OnlyOwnersRelease
<1>1. CASE ProcStarts(r)  BY <1>1 DEF ProcStarts
<1>2. CASE StreamFinishes(r)  BY <1>2 DEF StreamFinishes, Leave, CloseStream, SkipFin
<1>3. CASE StreamRaises(r)  BY <1>3 DEF StreamRaises, Leave, CloseStream, ArmFin, NoRun
<1>4. CASE StreamCancelled(r)  BY <1>4 DEF StreamCancelled, Leave, CloseStream, SkipFin
<1>5. CASE ProcInterrupted(r)  BY <1>5 DEF ProcInterrupted, Leave, CloseStream, SkipFin
<1>6. CASE ProcWriteFails(r)  BY <1>6 DEF ProcWriteFails, Leave, CloseStream, SkipFin
<1>7. CASE ProcMarksFailed(r)  BY <1>7 DEF ProcMarksFailed, WriteRun, NoRun
<1>8. CASE ProcStopsWriter(r)  BY <1>8 DEF ProcStopsWriter
<1>9. CASE ProcStopFails(r)  BY <1>9 DEF ProcStopFails
<1>10. CASE ProcReleases(r)  BY <1>10 DEF ProcReleases, ReleaseLock
<1>11. CASE ProcWritesRun(r)  BY <1>11 DEF ProcWritesRun, WriteRun, NoRun, RunStatus
<1>12. CASE ProcMarksComplete(r)  BY <1>12 DEF ProcMarksComplete
<1> QED
  BY <1>1, <1>2, <1>3, <1>4, <1>5, <1>6, <1>7, <1>8, <1>9, <1>10, <1>11, <1>12 DEF Processor

(* The response keeps owners holding. *)
LEMMA ExclusionResponse ==
  ASSUME OnlyOwnersRelease, ExclusionInv, NEW r \in Req, Response(r)
  PROVE  OwnersHold'
<1> USE RequestAssumption
    DEF ShapeInv, AllShaped, TypeInv, TypeOK, admission, Shape, NotYetRun, NotYetSpawned,
        Processing, Goto, ExclusionInv, OwnersHold, Owns, OnlyOwnersRelease
<1>1. CASE ResponseStarts(r)  BY <1>1 DEF ResponseStarts
<1>2. CASE ResponseFinishes(r)  BY <1>2 DEF ResponseFinishes, Responding, CloseStream, ArmFin, NoRun
<1>3. CASE ResponseFails(r)  BY <1>3 DEF ResponseFails, Responding, CloseStream, ArmFin, NoRun
<1>4. CASE ResponseCancelled(r)  BY <1>4 DEF ResponseCancelled, CloseStream, SkipFin
<1>5. CASE FinWritesRun(r)  BY <1>5 DEF FinWritesRun, WriteRun
<1>6. CASE FinReleases(r)
  <2>1. KindOf[r] = "foreground"  BY <1>6 DEF FinReleases, Kind
  <2>2. handler[r] = "returned"  BY <1>6, <2>1 DEF FinReleases
  <2>3. lock[KeyOf[r]] = r  BY <1>6, <2>1, <2>2 DEF FinReleases
  <2> QED  BY <1>6, <2>3 DEF FinReleases, ReleaseLock
<1> QED
  BY <1>1, <1>2, <1>3, <1>4, <1>5, <1>6 DEF Response

(* Cancellation keeps owners holding. *)
LEMMA ExclusionCancellation ==
  ASSUME OnlyOwnersRelease, ExclusionInv, NEW r \in Req, Cancellation(r) \/ SeesCancel(r)
  PROVE  OwnersHold'
<1> USE RequestAssumption
    DEF ShapeInv, AllShaped, TypeInv, TypeOK, admission, Shape, NotYetRun, NotYetSpawned,
        Processing, Goto, ExclusionInv, OwnersHold, Owns, OnlyOwnersRelease
<1>1. CASE CancelReads(r)  BY <1>1 DEF CancelReads
<1>2. CASE CancelWrites(r)  BY <1>2 DEF CancelWrites, WriteRun, NoRun
<1>3. CASE CancelReleases(r)  BY <1>3 DEF CancelReleases, ReleaseLock
<1>4. CASE AgentSeesCancel(r)  BY <1>4 DEF AgentSeesCancel
<1>5. CASE WrapperSeesCancel(r)  BY <1>5 DEF WrapperSeesCancel
<1> QED
  BY <1>1, <1>2, <1>3, <1>4, <1>5 DEF Cancellation, SeesCancel

(* Every step keeps owners holding, when only owners release.               *)
LEMMA ExclusionStep == OnlyOwnersRelease /\ ExclusionInv /\ [Next]_vars => ExclusionInv'
<1> SUFFICES ASSUME OnlyOwnersRelease, ExclusionInv, [Next]_vars  PROVE ExclusionInv'  OBVIOUS
<1>1. ShapeInv'  BY ShapeStep DEF ExclusionInv
<1>2. ASSUME NEW r \in Req, Admission(r)  PROVE OwnersHold'  BY <1>2, ExclusionAdmission
<1>3. ASSUME NEW r \in Req, Processor(r)  PROVE OwnersHold'  BY <1>3, ExclusionProcessor
<1>4. ASSUME NEW r \in Req, Response(r)  PROVE OwnersHold'  BY <1>4, ExclusionResponse
<1>5. ASSUME NEW r \in Req, Cancellation(r) \/ SeesCancel(r)  PROVE OwnersHold'
  BY <1>5, ExclusionCancellation
<1>6. ASSUME NEW k \in Key, LockExpires(k)  PROVE OwnersHold'
  BY <1>6, RequestAssumption
  DEF LockExpires, ShapeInv, TypeInv, TypeOK, admission, ExclusionInv, OwnersHold, Owns, OnlyOwnersRelease
<1>7. ASSUME UNCHANGED vars  PROVE OwnersHold'
  BY <1>7 DEF vars, admission, ExclusionInv, OwnersHold, Owns
<1>8. OwnersHold'  BY <1>2, <1>3, <1>4, <1>5, <1>6, <1>7 DEF Next
<1> QED  BY <1>1, <1>8 DEF ExclusionInv

(* For any requests of any kinds, the agent loops of one lock key exclude   *)
(* each other as long as nobody but the owner releases: run creation, the   *)
(* Redis writer and the server tasks may fail.                              *)
THEOREM Exclusion == OnlyOwnersRelease => (Spec => []MutualExclusion)
<1> SUFFICES ASSUME OnlyOwnersRelease  PROVE Spec => []MutualExclusion  OBVIOUS
<1>1. Init => ExclusionInv
  <2> SUFFICES ASSUME Init  PROVE ExclusionInv  OBVIOUS
  <2>1. ShapeInv  BY ShapeInit
  <2>2. OwnersHold  BY RequestAssumption DEF Init, OwnersHold, Owns, NoFin
  <2> QED  BY <2>1, <2>2 DEF ExclusionInv
<1>2. ExclusionInv /\ [Next]_vars => ExclusionInv'  BY ExclusionStep
<1>3. ExclusionInv => MutualExclusion
  <2> SUFFICES ASSUME ExclusionInv  PROVE MutualExclusion  OBVIOUS
  <2>1. ASSUME NEW r \in Req, Processing(r)  PROVE Owns(r)
    <3>1. KindOf[r] \in Kind  BY RequestAssumption
    <3> QED
      BY <2>1, <3>1 DEF ExclusionInv, ShapeInv, AllShaped, Shape, Owns, Kind, Processing,
         TypeInv, TypeOK, FinPoint
  <2>2. ASSUME NEW r \in Req, Processing(r)  PROVE lock[KeyOf[r]] = r
    BY <2>1, <2>2 DEF ExclusionInv, OwnersHold
  <2> QED  BY <2>2 DEF MutualExclusion
<1> QED  BY <1>1, <1>2, <1>3, PTL DEF Spec

-----------------------------------------------------------------------------
(* The conversation lock is implemented: every step maps to one of its      *)
(* steps or to a stutter.                                                   *)

(* A processor that iterates its stream has it open, one that left its try  *)
(* block has closed it, and the synchronous step runs the loop.             *)
Streamed ==
  \A r \in Req :
     /\ proc[r] = "streaming" => Processing(r)
     /\ proc[r] \in {"failing", "stop", "release"} => stream[r] = "closed"
     /\ handler[r] = "step" => Processing(r)

LockInv == ExclusionInv /\ Streamed

(* Every step keeps the streams of those who use them. *)
LEMMA StreamedStep == ShapeInv /\ Streamed /\ [Next]_vars => Streamed'
<1> SUFFICES ASSUME ShapeInv, Streamed, [Next]_vars  PROVE Streamed'  OBVIOUS
<1> USE RequestAssumption
    DEF Streamed, ShapeInv, AllShaped, TypeInv, TypeOK, admission, Shape, NotYetRun,
        NotYetSpawned, Processing, Goto
<1>1. ASSUME NEW r \in Req, Admission(r)  PROVE Streamed'
  <2>1. CASE Arrive(r)  BY <2>1 DEF Arrive
  <2>2. CASE AcquireLock(r)  BY <2>2 DEF AcquireLock
  <2>3. CASE AcquireFails(r)  BY <2>3 DEF AcquireFails
  <2>4. CASE ReadHolder(r)  BY <2>4 DEF ReadHolder
  <2>5. CASE SecondChance(r)  BY <2>5 DEF SecondChance
  <2>6. CASE CreateRun(r)  BY <2>6 DEF CreateRun
  <2>7. CASE CreateRunFails(r)  BY <2>7 DEF CreateRunFails
  <2>8. CASE StoreMapping(r)  BY <2>8 DEF StoreMapping
  <2>9. CASE SpawnStream(r)  BY <2>9 DEF SpawnStream
  <2>10. CASE RefetchRun(r)  BY <2>10 DEF RefetchRun
  <2>11. CASE HandlerRaises(r)  BY <2>11 DEF HandlerRaises
  <2>12. CASE HandlerWritesRun(r)  BY <2>12 DEF HandlerWritesRun
  <2>13. CASE HandlerReleases(r)  BY <2>13 DEF HandlerReleases
  <2>14. CASE SyncStepEnds(r)  BY <2>14 DEF SyncStepEnds
  <2>15. CASE SyncReleases(r)  BY <2>15 DEF SyncReleases
  <2> QED  BY <1>1, <2>1, <2>2, <2>3, <2>4, <2>5, <2>6, <2>7, <2>8, <2>9,
     <2>10, <2>11, <2>12, <2>13, <2>14, <2>15 DEF Admission
<1>2. ASSUME NEW r \in Req, Processor(r)  PROVE Streamed'
  <2>1. CASE ProcStarts(r)  BY <2>1 DEF ProcStarts
  <2>2. CASE StreamFinishes(r)  BY <2>2 DEF StreamFinishes, Leave, CloseStream
  <2>3. CASE StreamRaises(r)  BY <2>3 DEF StreamRaises, Leave, CloseStream
  <2>4. CASE StreamCancelled(r)  BY <2>4 DEF StreamCancelled, Leave, CloseStream
  <2>5. CASE ProcInterrupted(r)  BY <2>5 DEF ProcInterrupted, Leave, CloseStream
  <2>6. CASE ProcWriteFails(r)
    <3>1. PICK point \in {"failing", "stop"} : proc' = [proc EXCEPT ![r] = point]
      BY <2>6 DEF ProcWriteFails, Leave
    <3>2. stream' = [stream EXCEPT ![r] = "closed"] /\ UNCHANGED handler
      BY <2>6 DEF ProcWriteFails, Leave, CloseStream
    <3>3. ASSUME NEW q \in Req \ {r}
          PROVE  proc'[q] = proc[q] /\ stream'[q] = stream[q] /\ handler'[q] = handler[q]
      BY <3>1, <3>2
    <3>4. proc'[r] = point /\ stream'[r] = "closed" /\ handler'[r] = handler[r]  BY <3>1, <3>2
    <3>5. handler[r] # "step"  BY <2>6 DEF ProcWriteFails, Kind
    <3> QED  BY <3>3, <3>4, <3>5
  <2>7. CASE ProcMarksFailed(r)  BY <2>7 DEF ProcMarksFailed
  <2>8. CASE ProcStopsWriter(r)  BY <2>8 DEF ProcStopsWriter
  <2>9. CASE ProcStopFails(r)  BY <2>9 DEF ProcStopFails
  <2>10. CASE ProcReleases(r)  BY <2>10 DEF ProcReleases
  <2>11. CASE ProcWritesRun(r)  BY <2>11 DEF ProcWritesRun
  <2>12. CASE ProcMarksComplete(r)  BY <2>12 DEF ProcMarksComplete
  <2> QED  BY <1>2, <2>1, <2>2, <2>3, <2>4, <2>5, <2>6, <2>7, <2>8, <2>9,
     <2>10, <2>11, <2>12 DEF Processor
<1>3. ASSUME NEW r \in Req, Response(r)  PROVE Streamed'
  <2>1. CASE ResponseStarts(r)  BY <2>1 DEF ResponseStarts
  <2>2. CASE ResponseFinishes(r)  BY <2>2 DEF ResponseFinishes, Responding, CloseStream
  <2>3. CASE ResponseFails(r)  BY <2>3 DEF ResponseFails, Responding, CloseStream
  <2>4. CASE ResponseCancelled(r)  BY <2>4 DEF ResponseCancelled, CloseStream
  <2>5. CASE FinWritesRun(r)  BY <2>5 DEF FinWritesRun
  <2>6. CASE FinReleases(r)  BY <2>6 DEF FinReleases
  <2> QED  BY <1>3, <2>1, <2>2, <2>3, <2>4, <2>5, <2>6 DEF Response
<1>4. ASSUME NEW r \in Req, Cancellation(r) \/ SeesCancel(r)  PROVE Streamed'
  BY <1>4 DEF Cancellation, SeesCancel, CancelReads, CancelWrites, CancelReleases,
     AgentSeesCancel, WrapperSeesCancel
<1>5. ASSUME NEW k \in Key, LockExpires(k)  PROVE Streamed'  BY <1>5 DEF LockExpires
<1>6. CASE UNCHANGED vars  BY <1>6 DEF vars
<1> QED  BY <1>1, <1>2, <1>3, <1>4, <1>5, <1>6 DEF Next

(* The step of one request leaves the others where they are.                *)
Alone(r) ==
  \A q \in Req \ {r} :
     /\ handler'[q] = handler[q]
     /\ stream'[q] = stream[q]
     /\ lock'[KeyOf[q]] = q <=> lock[KeyOf[q]] = q

Waiting(r) == handler[r] \in {"start", "acquire", "holder", "retry", "recovered", "busy"}

(* Where a request stands depends on its own handler, stream and lock.      *)
LEMMA PhaseOfOthers ==
  ASSUME NEW r \in Req, Alone(r), NEW q \in Req \ {r}
  PROVE  Phase(q)' = Phase(q)
  BY DEF Alone, Phase, Processing

(* A step that changes where one request stands is a move of the lock.      *)
LEMMA MovesOne ==
  ASSUME NEW r \in Req, Alone(r), NEW from, NEW to, Phase(r) = from, Phase(r)' = to
  PROVE  Lock!Move(r, from, to)
<1>1. \A q \in Req \ {r} : Phase(q)' = Phase(q)  BY PhaseOfOthers
<1>2. PhaseOf' = [PhaseOf EXCEPT ![r] = to]  BY <1>1 DEF PhaseOf
<1>3. PhaseOf[r] = from  BY DEF PhaseOf
<1> QED  BY <1>2, <1>3 DEF Lock!Move

(* A step that neither takes, releases, starts nor stops is a stutter.      *)
LEMMA MovesNone ==
  ASSUME NEW r \in Req, UNCHANGED lock,
         \A q \in Req \ {r} : handler'[q] = handler[q] /\ stream'[q] = stream[q],
         Processing(r)' = Processing(r),
         stream'[r] = "none" <=> stream[r] = "none",
         stream'[r] = "closed" <=> stream[r] = "closed",
         lock[KeyOf[r]] = r \/ Waiting(r)' = Waiting(r)
  PROVE  UNCHANGED Lock!vars
<1>1. Alone(r)  BY DEF Alone
<1>2. \A q \in Req \ {r} : Phase(q)' = Phase(q)  BY <1>1, PhaseOfOthers
<1>3. Phase(r)' = Phase(r)  BY DEF Phase, Waiting
<1>4. UNCHANGED PhaseOf  BY <1>2, <1>3 DEF PhaseOf
<1> QED  BY <1>4 DEF Lock!vars

(* Admission takes a free lock, runs a synchronous loop, returns its lock.  *)
LEMMA LockAdmission ==
  ASSUME OnlyOwnersRelease, LockInv, NEW r \in Req, Admission(r)
  PROVE  [Lock!Next]_(Lock!vars)
<1> USE RequestAssumption
    DEF LockInv, Streamed, ExclusionInv, OwnersHold, Owns, OnlyOwnersRelease, ShapeInv, AllShaped,
        TypeInv, TypeOK, admission, Shape, NotYetRun, NotYetSpawned, Processing, Goto
<1>1. CASE Arrive(r)
  <2>1. UNCHANGED lock /\ \A q \in Req \ {r} : handler'[q] = handler[q] /\ stream'[q] = stream[q]
    BY <1>1 DEF Arrive
  <2>2. /\ Processing(r)' = Processing(r)
        /\ stream'[r] = "none" <=> stream[r] = "none"
        /\ stream'[r] = "closed" <=> stream[r] = "closed"
        /\ lock[KeyOf[r]] = r \/ Waiting(r)' = Waiting(r)
    BY <1>1 DEF Arrive, Waiting
  <2>3. UNCHANGED Lock!vars  BY ONLY <2>1, <2>2, MovesNone
  <2> QED  BY <2>3
<1>2. CASE AcquireLock(r)
  <2>1. lock[KeyOf[r]] = NoReq /\ lock' = [lock EXCEPT ![KeyOf[r]] = r]
    BY <1>2 DEF AcquireLock
  <2>2. Alone(r)  BY <1>2, <2>1 DEF AcquireLock, Alone
  <2>3. Phase(r) = "waiting"  BY <1>2, <2>1 DEF AcquireLock, Phase
  <2>4. Phase(r)' = "holding"  BY <1>2, <2>1 DEF AcquireLock, Phase
  <2>5. Lock!Move(r, "waiting", "holding")  BY ONLY <2>2, <2>3, <2>4, MovesOne
  <2>6. Lock!Acquire(r)  BY <2>1, <2>5 DEF Lock!Acquire
  <2> QED  BY <2>6 DEF Lock!Next
<1>3. CASE AcquireFails(r)
  <2>1. UNCHANGED lock /\ \A q \in Req \ {r} : handler'[q] = handler[q] /\ stream'[q] = stream[q]
    BY <1>3 DEF AcquireFails
  <2>2. /\ Processing(r)' = Processing(r)
        /\ stream'[r] = "none" <=> stream[r] = "none"
        /\ stream'[r] = "closed" <=> stream[r] = "closed"
        /\ lock[KeyOf[r]] = r \/ Waiting(r)' = Waiting(r)
    BY <1>3 DEF AcquireFails, Waiting
  <2>3. UNCHANGED Lock!vars  BY ONLY <2>1, <2>2, MovesNone
  <2> QED  BY <2>3
<1>4. CASE ReadHolder(r)
  <2>1. UNCHANGED lock /\ \A q \in Req \ {r} : handler'[q] = handler[q] /\ stream'[q] = stream[q]
    BY <1>4 DEF ReadHolder
  <2>2. /\ Processing(r)' = Processing(r)
        /\ stream'[r] = "none" <=> stream[r] = "none"
        /\ stream'[r] = "closed" <=> stream[r] = "closed"
        /\ lock[KeyOf[r]] = r \/ Waiting(r)' = Waiting(r)
    BY <1>4 DEF ReadHolder, Waiting
  <2>3. UNCHANGED Lock!vars  BY ONLY <2>1, <2>2, MovesNone
  <2> QED  BY <2>3
<1>5. CASE SecondChance(r)
  <2>1. UNCHANGED lock /\ \A q \in Req \ {r} : handler'[q] = handler[q] /\ stream'[q] = stream[q]
    BY <1>5 DEF SecondChance
  <2>2. /\ Processing(r)' = Processing(r)
        /\ stream'[r] = "none" <=> stream[r] = "none"
        /\ stream'[r] = "closed" <=> stream[r] = "closed"
        /\ lock[KeyOf[r]] = r \/ Waiting(r)' = Waiting(r)
    BY <1>5 DEF SecondChance, Waiting
  <2>3. UNCHANGED Lock!vars  BY ONLY <2>1, <2>2, MovesNone
  <2> QED  BY <2>3
<1>6. CASE CreateRun(r)
  <2>1. UNCHANGED lock /\ \A q \in Req \ {r} : handler'[q] = handler[q] /\ stream'[q] = stream[q]
    BY <1>6 DEF CreateRun
  <2>2. /\ Processing(r)' = Processing(r)
        /\ stream'[r] = "none" <=> stream[r] = "none"
        /\ stream'[r] = "closed" <=> stream[r] = "closed"
        /\ lock[KeyOf[r]] = r \/ Waiting(r)' = Waiting(r)
    BY <1>6 DEF CreateRun, Waiting
  <2>3. UNCHANGED Lock!vars  BY ONLY <2>1, <2>2, MovesNone
  <2> QED  BY <2>3
<1>7. CASE CreateRunFails(r)
  <2>1. UNCHANGED lock /\ \A q \in Req \ {r} : handler'[q] = handler[q] /\ stream'[q] = stream[q]
    BY <1>7 DEF CreateRunFails
  <2>2. /\ Processing(r)' = Processing(r)
        /\ stream'[r] = "none" <=> stream[r] = "none"
        /\ stream'[r] = "closed" <=> stream[r] = "closed"
        /\ lock[KeyOf[r]] = r \/ Waiting(r)' = Waiting(r)
    BY <1>7 DEF CreateRunFails, Waiting
  <2>3. UNCHANGED Lock!vars  BY ONLY <2>1, <2>2, MovesNone
  <2> QED  BY <2>3
<1>8. CASE StoreMapping(r) /\ KindOf[r] = "sync"
  <2>1. lock[KeyOf[r]] = r /\ UNCHANGED lock
    BY <1>8 DEF StoreMapping
  <2>2. Alone(r)  BY <1>8, <2>1 DEF StoreMapping, Alone
  <2>3. Phase(r) = "holding"  BY <1>8, <2>1 DEF StoreMapping, Phase
  <2>4. Phase(r)' = "working"  BY <1>8, <2>1 DEF StoreMapping, Phase
  <2>5. Lock!Move(r, "holding", "working")  BY ONLY <2>2, <2>3, <2>4, MovesOne
  <2>6. Lock!Work(r)  BY <2>1, <2>5 DEF Lock!Work
  <2> QED  BY <2>6 DEF Lock!Next
<1>9. CASE StoreMapping(r) /\ KindOf[r] # "sync"
  <2>1. UNCHANGED lock /\ \A q \in Req \ {r} : handler'[q] = handler[q] /\ stream'[q] = stream[q]
    BY <1>9 DEF StoreMapping
  <2>2. /\ Processing(r)' = Processing(r)
        /\ stream'[r] = "none" <=> stream[r] = "none"
        /\ stream'[r] = "closed" <=> stream[r] = "closed"
        /\ lock[KeyOf[r]] = r \/ Waiting(r)' = Waiting(r)
    BY <1>9 DEF StoreMapping, Waiting
  <2>3. UNCHANGED Lock!vars  BY ONLY <2>1, <2>2, MovesNone
  <2> QED  BY <2>3
<1>10. CASE SpawnStream(r)
  <2>1. UNCHANGED lock /\ \A q \in Req \ {r} : handler'[q] = handler[q] /\ stream'[q] = stream[q]
    BY <1>10 DEF SpawnStream
  <2>2. /\ Processing(r)' = Processing(r)
        /\ stream'[r] = "none" <=> stream[r] = "none"
        /\ stream'[r] = "closed" <=> stream[r] = "closed"
        /\ lock[KeyOf[r]] = r \/ Waiting(r)' = Waiting(r)
    BY <1>10 DEF SpawnStream, Waiting
  <2>3. UNCHANGED Lock!vars  BY ONLY <2>1, <2>2, MovesNone
  <2> QED  BY <2>3
<1>11. CASE RefetchRun(r)
  <2>1. UNCHANGED lock /\ \A q \in Req \ {r} : handler'[q] = handler[q] /\ stream'[q] = stream[q]
    BY <1>11 DEF RefetchRun
  <2>2. /\ Processing(r)' = Processing(r)
        /\ stream'[r] = "none" <=> stream[r] = "none"
        /\ stream'[r] = "closed" <=> stream[r] = "closed"
        /\ lock[KeyOf[r]] = r \/ Waiting(r)' = Waiting(r)
    BY <1>11 DEF RefetchRun, Waiting
  <2>3. UNCHANGED Lock!vars  BY ONLY <2>1, <2>2, MovesNone
  <2> QED  BY <2>3
<1>12. CASE HandlerRaises(r)  BY <1>12 DEF HandlerRaises
<1>13. CASE HandlerWritesRun(r)
  <2>1. UNCHANGED lock /\ \A q \in Req \ {r} : handler'[q] = handler[q] /\ stream'[q] = stream[q]
    BY <1>13 DEF HandlerWritesRun
  <2>2. /\ Processing(r)' = Processing(r)
        /\ stream'[r] = "none" <=> stream[r] = "none"
        /\ stream'[r] = "closed" <=> stream[r] = "closed"
        /\ lock[KeyOf[r]] = r \/ Waiting(r)' = Waiting(r)
    BY <1>13 DEF HandlerWritesRun, Waiting
  <2>3. UNCHANGED Lock!vars  BY ONLY <2>1, <2>2, MovesNone
  <2> QED  BY <2>3
<1>14. CASE HandlerReleases(r)  BY <1>14 DEF HandlerReleases
<1>15. CASE SyncStepEnds(r)
  <2>1. lock[KeyOf[r]] = r /\ UNCHANGED lock
    BY <1>15 DEF SyncStepEnds
  <2>2. Alone(r)  BY <1>15, <2>1 DEF SyncStepEnds, Alone
  <2>3. Phase(r) = "working"  BY <1>15, <2>1 DEF SyncStepEnds, Phase
  <2>4. Phase(r)' = "stopped"  BY <1>15, <2>1 DEF SyncStepEnds, Phase
  <2>5. Lock!Move(r, "working", "stopped")  BY ONLY <2>2, <2>3, <2>4, MovesOne
  <2>6. Lock!Stop(r)  BY <2>1, <2>5 DEF Lock!Stop
  <2> QED  BY <2>6 DEF Lock!Next
<1>16. CASE SyncReleases(r)
  <2>1. lock[KeyOf[r]] = r /\ lock' = [lock EXCEPT ![KeyOf[r]] = NoReq]
    BY <1>16 DEF SyncReleases, ReleaseLock
  <2>2. Alone(r)  BY <1>16, <2>1 DEF SyncReleases, Alone
  <2>3. Phase(r)' = "finished"  BY <1>16, <2>1 DEF SyncReleases, Phase
  <2>4. Phase(r) \in {"holding", "stopped"}
    BY <1>16, <2>1 DEF SyncReleases, Phase, StreamState
  <2>5. Lock!Move(r, "holding", "finished") \/ Lock!Move(r, "stopped", "finished")
    BY ONLY <2>2, <2>3, <2>4, MovesOne
  <2>6. Lock!Release(r)  BY <2>1, <2>5 DEF Lock!Release
  <2> QED  BY <2>6 DEF Lock!Next
<1> QED
  BY <1>1, <1>2, <1>3, <1>4, <1>5, <1>6, <1>7, <1>8, <1>9,
     <1>10, <1>11, <1>12, <1>13, <1>14, <1>15, <1>16 DEF Admission

(* The processor runs the loop under the lock and returns its own lock.     *)
LEMMA LockProcessor ==
  ASSUME OnlyOwnersRelease, LockInv, NEW r \in Req, Processor(r)
  PROVE  [Lock!Next]_(Lock!vars)
<1> USE RequestAssumption
    DEF LockInv, Streamed, ExclusionInv, OwnersHold, Owns, OnlyOwnersRelease, ShapeInv, AllShaped,
        TypeInv, TypeOK, admission, Shape, NotYetRun, NotYetSpawned, Processing, Goto
<1>1. CASE ProcStarts(r)
  <2>1. lock[KeyOf[r]] = r /\ UNCHANGED lock
    BY <1>1 DEF ProcStarts
  <2>2. Alone(r)  BY <1>1, <2>1 DEF ProcStarts, Alone
  <2>3. Phase(r) = "holding"  BY <1>1, <2>1 DEF ProcStarts, Phase
  <2>4. Phase(r)' = "working"  BY <1>1, <2>1 DEF ProcStarts, Phase
  <2>5. Lock!Move(r, "holding", "working")  BY ONLY <2>2, <2>3, <2>4, MovesOne
  <2>6. Lock!Work(r)  BY <2>1, <2>5 DEF Lock!Work
  <2> QED  BY <2>6 DEF Lock!Next
<1>2. CASE StreamFinishes(r)
  <2>1. lock[KeyOf[r]] = r /\ UNCHANGED lock
    BY <1>2 DEF StreamFinishes, Leave, CloseStream
  <2>2. Alone(r)  BY <1>2, <2>1 DEF StreamFinishes, Leave, CloseStream, Alone
  <2>3. Phase(r) = "working"  BY <1>2, <2>1 DEF StreamFinishes, Leave, CloseStream, Phase
  <2>4. Phase(r)' = "stopped"  BY <1>2, <2>1 DEF StreamFinishes, Leave, CloseStream, Phase
  <2>5. Lock!Move(r, "working", "stopped")  BY ONLY <2>2, <2>3, <2>4, MovesOne
  <2>6. Lock!Stop(r)  BY <2>1, <2>5 DEF Lock!Stop
  <2> QED  BY <2>6 DEF Lock!Next
<1>3. CASE StreamRaises(r)  BY <1>3 DEF StreamRaises
<1>4. CASE StreamCancelled(r)
  <2>1. lock[KeyOf[r]] = r /\ UNCHANGED lock
    BY <1>4 DEF StreamCancelled, Leave, CloseStream
  <2>2. Alone(r)  BY <1>4, <2>1 DEF StreamCancelled, Leave, CloseStream, Alone
  <2>3. Phase(r) = "working"  BY <1>4, <2>1 DEF StreamCancelled, Leave, CloseStream, Phase
  <2>4. Phase(r)' = "stopped"  BY <1>4, <2>1 DEF StreamCancelled, Leave, CloseStream, Phase
  <2>5. Lock!Move(r, "working", "stopped")  BY ONLY <2>2, <2>3, <2>4, MovesOne
  <2>6. Lock!Stop(r)  BY <2>1, <2>5 DEF Lock!Stop
  <2> QED  BY <2>6 DEF Lock!Next
<1>5. CASE ProcInterrupted(r)
  <2>1. lock[KeyOf[r]] = r /\ UNCHANGED lock
    BY <1>5 DEF ProcInterrupted, Leave, CloseStream
  <2>2. Alone(r)  BY <1>5, <2>1 DEF ProcInterrupted, Leave, CloseStream, Alone
  <2>3. Phase(r) = "working"  BY <1>5, <2>1 DEF ProcInterrupted, Leave, CloseStream, Phase
  <2>4. Phase(r)' = "stopped"  BY <1>5, <2>1 DEF ProcInterrupted, Leave, CloseStream, Phase
  <2>5. Lock!Move(r, "working", "stopped")  BY ONLY <2>2, <2>3, <2>4, MovesOne
  <2>6. Lock!Stop(r)  BY <2>1, <2>5 DEF Lock!Stop
  <2> QED  BY <2>6 DEF Lock!Next
<1>6. CASE ProcWriteFails(r)
  <2>1. lock[KeyOf[r]] = r /\ UNCHANGED lock
    BY <1>6 DEF ProcWriteFails, Leave, CloseStream
  <2>2. Alone(r)  BY <1>6, <2>1 DEF ProcWriteFails, Leave, CloseStream, Alone
  <2>3. Phase(r) = "working"  BY <1>6, <2>1 DEF ProcWriteFails, Leave, CloseStream, Phase
  <2>4. Phase(r)' = "stopped"  BY <1>6, <2>1 DEF ProcWriteFails, Leave, CloseStream, Phase
  <2>5. Lock!Move(r, "working", "stopped")  BY ONLY <2>2, <2>3, <2>4, MovesOne
  <2>6. Lock!Stop(r)  BY <2>1, <2>5 DEF Lock!Stop
  <2> QED  BY <2>6 DEF Lock!Next
<1>7. CASE ProcMarksFailed(r)
  <2>1. UNCHANGED lock /\ \A q \in Req \ {r} : handler'[q] = handler[q] /\ stream'[q] = stream[q]
    BY <1>7 DEF ProcMarksFailed
  <2>2. /\ Processing(r)' = Processing(r)
        /\ stream'[r] = "none" <=> stream[r] = "none"
        /\ stream'[r] = "closed" <=> stream[r] = "closed"
        /\ lock[KeyOf[r]] = r \/ Waiting(r)' = Waiting(r)
    BY <1>7 DEF ProcMarksFailed, Waiting
  <2>3. UNCHANGED Lock!vars  BY ONLY <2>1, <2>2, MovesNone
  <2> QED  BY <2>3
<1>8. CASE ProcStopsWriter(r)
  <2>1. UNCHANGED lock /\ \A q \in Req \ {r} : handler'[q] = handler[q] /\ stream'[q] = stream[q]
    BY <1>8 DEF ProcStopsWriter
  <2>2. /\ Processing(r)' = Processing(r)
        /\ stream'[r] = "none" <=> stream[r] = "none"
        /\ stream'[r] = "closed" <=> stream[r] = "closed"
        /\ lock[KeyOf[r]] = r \/ Waiting(r)' = Waiting(r)
    BY <1>8 DEF ProcStopsWriter, Waiting
  <2>3. UNCHANGED Lock!vars  BY ONLY <2>1, <2>2, MovesNone
  <2> QED  BY <2>3
<1>9. CASE ProcStopFails(r)
  <2>1. UNCHANGED lock /\ \A q \in Req \ {r} : handler'[q] = handler[q] /\ stream'[q] = stream[q]
    BY <1>9 DEF ProcStopFails
  <2>2. /\ Processing(r)' = Processing(r)
        /\ stream'[r] = "none" <=> stream[r] = "none"
        /\ stream'[r] = "closed" <=> stream[r] = "closed"
        /\ lock[KeyOf[r]] = r \/ Waiting(r)' = Waiting(r)
    BY <1>9 DEF ProcStopFails, Waiting
  <2>3. UNCHANGED Lock!vars  BY ONLY <2>1, <2>2, MovesNone
  <2> QED  BY <2>3
<1>10. CASE ProcReleases(r)
  <2>1. lock[KeyOf[r]] = r /\ lock' = [lock EXCEPT ![KeyOf[r]] = NoReq]
    BY <1>10 DEF ProcReleases, ReleaseLock
  <2>2. Alone(r)  BY <1>10, <2>1 DEF ProcReleases, ReleaseLock, Alone
  <2>3. Phase(r) = "stopped"  BY <1>10, <2>1 DEF ProcReleases, ReleaseLock, Phase
  <2>4. Phase(r)' = "finished"  BY <1>10, <2>1 DEF ProcReleases, ReleaseLock, Phase
  <2>5. Lock!Move(r, "stopped", "finished")  BY ONLY <2>2, <2>3, <2>4, MovesOne
  <2>6. Lock!Release(r)  BY <2>1, <2>5 DEF Lock!Release
  <2> QED  BY <2>6 DEF Lock!Next
<1>11. CASE ProcWritesRun(r)
  <2>1. UNCHANGED lock /\ \A q \in Req \ {r} : handler'[q] = handler[q] /\ stream'[q] = stream[q]
    BY <1>11 DEF ProcWritesRun
  <2>2. /\ Processing(r)' = Processing(r)
        /\ stream'[r] = "none" <=> stream[r] = "none"
        /\ stream'[r] = "closed" <=> stream[r] = "closed"
        /\ lock[KeyOf[r]] = r \/ Waiting(r)' = Waiting(r)
    BY <1>11 DEF ProcWritesRun, Waiting
  <2>3. UNCHANGED Lock!vars  BY ONLY <2>1, <2>2, MovesNone
  <2> QED  BY <2>3
<1>12. CASE ProcMarksComplete(r)
  <2>1. UNCHANGED lock /\ \A q \in Req \ {r} : handler'[q] = handler[q] /\ stream'[q] = stream[q]
    BY <1>12 DEF ProcMarksComplete
  <2>2. /\ Processing(r)' = Processing(r)
        /\ stream'[r] = "none" <=> stream[r] = "none"
        /\ stream'[r] = "closed" <=> stream[r] = "closed"
        /\ lock[KeyOf[r]] = r \/ Waiting(r)' = Waiting(r)
    BY <1>12 DEF ProcMarksComplete, Waiting
  <2>3. UNCHANGED Lock!vars  BY ONLY <2>1, <2>2, MovesNone
  <2> QED  BY <2>3
<1> QED
  BY <1>1, <1>2, <1>3, <1>4, <1>5, <1>6, <1>7, <1>8, <1>9, <1>10, <1>11, <1>12 DEF Processor

(* The response runs the loop under the lock and its finaliser returns it.  *)
LEMMA LockResponse ==
  ASSUME OnlyOwnersRelease, LockInv, NEW r \in Req, Response(r)
  PROVE  [Lock!Next]_(Lock!vars)
<1> USE RequestAssumption
    DEF LockInv, Streamed, ExclusionInv, OwnersHold, Owns, OnlyOwnersRelease, ShapeInv, AllShaped,
        TypeInv, TypeOK, admission, Shape, NotYetRun, NotYetSpawned, Processing, Goto
<1>1. CASE ResponseStarts(r)
  <2>1. lock[KeyOf[r]] = r /\ UNCHANGED lock
    BY <1>1 DEF ResponseStarts
  <2>2. Alone(r)  BY <1>1, <2>1 DEF ResponseStarts, Alone
  <2>3. Phase(r) = "holding"  BY <1>1, <2>1 DEF ResponseStarts, Phase
  <2>4. Phase(r)' = "working"  BY <1>1, <2>1 DEF ResponseStarts, Phase
  <2>5. Lock!Move(r, "holding", "working")  BY ONLY <2>2, <2>3, <2>4, MovesOne
  <2>6. Lock!Work(r)  BY <2>1, <2>5 DEF Lock!Work
  <2> QED  BY <2>6 DEF Lock!Next
<1>2. CASE ResponseFinishes(r)
  <2>1. lock[KeyOf[r]] = r /\ UNCHANGED lock
    BY <1>2 DEF ResponseFinishes, Responding, CloseStream
  <2>2. Alone(r)  BY <1>2, <2>1 DEF ResponseFinishes, Responding, CloseStream, Alone
  <2>3. Phase(r) = "working"  BY <1>2, <2>1 DEF ResponseFinishes, Responding, CloseStream, Phase
  <2>4. Phase(r)' = "stopped"  BY <1>2, <2>1 DEF ResponseFinishes, Responding, CloseStream, Phase
  <2>5. Lock!Move(r, "working", "stopped")  BY ONLY <2>2, <2>3, <2>4, MovesOne
  <2>6. Lock!Stop(r)  BY <2>1, <2>5 DEF Lock!Stop
  <2> QED  BY <2>6 DEF Lock!Next
<1>3. CASE ResponseFails(r)
  <2>1. lock[KeyOf[r]] = r /\ UNCHANGED lock
    BY <1>3 DEF ResponseFails, Responding, CloseStream
  <2>2. Alone(r)  BY <1>3, <2>1 DEF ResponseFails, Responding, CloseStream, Alone
  <2>3. Phase(r) = "working"  BY <1>3, <2>1 DEF ResponseFails, Responding, CloseStream, Phase
  <2>4. Phase(r)' = "stopped"  BY <1>3, <2>1 DEF ResponseFails, Responding, CloseStream, Phase
  <2>5. Lock!Move(r, "working", "stopped")  BY ONLY <2>2, <2>3, <2>4, MovesOne
  <2>6. Lock!Stop(r)  BY <2>1, <2>5 DEF Lock!Stop
  <2> QED  BY <2>6 DEF Lock!Next
<1>4. CASE ResponseCancelled(r)
  <2>1. lock[KeyOf[r]] = r /\ UNCHANGED lock
    BY <1>4 DEF ResponseCancelled, CloseStream
  <2>2. Alone(r)  BY <1>4, <2>1 DEF ResponseCancelled, CloseStream, Alone
  <2>3. Phase(r) = "working"  BY <1>4, <2>1 DEF ResponseCancelled, CloseStream, Phase
  <2>4. Phase(r)' = "stopped"  BY <1>4, <2>1 DEF ResponseCancelled, CloseStream, Phase
  <2>5. Lock!Move(r, "working", "stopped")  BY ONLY <2>2, <2>3, <2>4, MovesOne
  <2>6. Lock!Stop(r)  BY <2>1, <2>5 DEF Lock!Stop
  <2> QED  BY <2>6 DEF Lock!Next
<1>5. CASE FinWritesRun(r)
  <2>1. UNCHANGED lock /\ \A q \in Req \ {r} : handler'[q] = handler[q] /\ stream'[q] = stream[q]
    BY <1>5 DEF FinWritesRun
  <2>2. /\ Processing(r)' = Processing(r)
        /\ stream'[r] = "none" <=> stream[r] = "none"
        /\ stream'[r] = "closed" <=> stream[r] = "closed"
        /\ lock[KeyOf[r]] = r \/ Waiting(r)' = Waiting(r)
    BY <1>5 DEF FinWritesRun, Waiting
  <2>3. UNCHANGED Lock!vars  BY ONLY <2>1, <2>2, MovesNone
  <2> QED  BY <2>3
<1>6. CASE FinReleases(r)
  <2>1. lock[KeyOf[r]] = r /\ lock' = [lock EXCEPT ![KeyOf[r]] = NoReq]
    <3>1. KindOf[r] = "foreground"  BY <1>6 DEF FinReleases, Kind
    <3>2. handler[r] = "returned"  BY <1>6, <3>1 DEF FinReleases
    <3> QED  BY <1>6, <3>1, <3>2 DEF FinReleases, ReleaseLock
  <2>2. Alone(r)  BY <1>6, <2>1 DEF FinReleases, ReleaseLock, Alone
  <2>3. Phase(r) = "stopped"  BY <1>6, <2>1 DEF FinReleases, ReleaseLock, Phase
  <2>4. Phase(r)' = "finished"  BY <1>6, <2>1 DEF FinReleases, ReleaseLock, Phase
  <2>5. Lock!Move(r, "stopped", "finished")  BY ONLY <2>2, <2>3, <2>4, MovesOne
  <2>6. Lock!Release(r)  BY <2>1, <2>5 DEF Lock!Release
  <2> QED  BY <2>6 DEF Lock!Next
<1> QED
  BY <1>1, <1>2, <1>3, <1>4, <1>5, <1>6 DEF Response

(* Every step is a step of the conversation lock or a stutter.              *)
LEMMA LockStep ==
  ASSUME OnlyOwnersRelease, LockInv, [Next]_vars
  PROVE  [Lock!Next]_(Lock!vars)
<1>1. ASSUME NEW r \in Req, Admission(r)  PROVE [Lock!Next]_(Lock!vars)  BY <1>1, LockAdmission
<1>2. ASSUME NEW r \in Req, Processor(r)  PROVE [Lock!Next]_(Lock!vars)  BY <1>2, LockProcessor
<1>3. ASSUME NEW r \in Req, Response(r)  PROVE [Lock!Next]_(Lock!vars)  BY <1>3, LockResponse
<1>4. ASSUME NEW r \in Req, Cancellation(r)  PROVE FALSE
  BY <1>4 DEF Cancellation, CancelReads, CancelWrites, CancelReleases, LockInv, ExclusionInv,
     OwnersHold, OnlyOwnersRelease
<1>5. ASSUME NEW r \in Req, SeesCancel(r)  PROVE [Lock!Next]_(Lock!vars)
  <2>1. UNCHANGED <<lock, handler>>
    BY <1>5 DEF SeesCancel, AgentSeesCancel, WrapperSeesCancel, admission
  <2>2. PICK s \in {"agent_cancel", "wrapper_cancel"} : stream' = [stream EXCEPT ![r] = s]
    BY <1>5 DEF SeesCancel, AgentSeesCancel, WrapperSeesCancel
  <2>3. stream[r] = "open"
    BY <1>5 DEF SeesCancel, AgentSeesCancel, WrapperSeesCancel
  <2>4. stream \in [Req -> StreamState]
    BY DEF LockInv, ExclusionInv, ShapeInv, TypeInv, TypeOK
  <2>5. \A q \in Req \ {r} : handler'[q] = handler[q] /\ stream'[q] = stream[q]
    BY <2>1, <2>2, <2>4
  <2>6. stream'[r] = s  BY <2>2, <2>4
  <2>7. /\ Processing(r)' = Processing(r)
        /\ stream'[r] = "none" <=> stream[r] = "none"
        /\ stream'[r] = "closed" <=> stream[r] = "closed"
        /\ Waiting(r)' = Waiting(r)
    BY <2>1, <2>3, <2>6 DEF Processing, Waiting
  <2>8. UNCHANGED Lock!vars  BY ONLY <2>1, <2>5, <2>7, MovesNone
  <2> QED  BY <2>8
<1>6. ASSUME NEW k \in Key, LockExpires(k)  PROVE FALSE
  BY <1>6 DEF LockExpires, OnlyOwnersRelease
<1>7. CASE UNCHANGED vars
  <2>1. \A q \in Req : Phase(q)' = Phase(q)  BY <1>7 DEF vars, admission, Phase, Processing
  <2> QED  BY <1>7, <2>1 DEF vars, Lock!vars, PhaseOf
<1> QED  BY <1>1, <1>2, <1>3, <1>4, <1>5, <1>6, <1>7 DEF Next

(* For any requests of any kinds, as long as nobody but the owner releases: *)
(* the handlers, processors and responses implement the conversation lock,  *)
(* so each request gets it only when it is free, runs its loop at most once *)
(* and under it, and no DEL of theirs removes the lock of another.          *)
THEOREM LockRefines == OnlyOwnersRelease => (Spec => ImplementsConversationLock)
<1> SUFFICES ASSUME OnlyOwnersRelease  PROVE Spec => ImplementsConversationLock  OBVIOUS
<1>1. Init => Lock!Init
  <2> SUFFICES ASSUME Init  PROVE Lock!Init  OBVIOUS
  <2>1. \A r \in Req : Phase(r) = "waiting"
    BY RequestAssumption, Zenon DEF Init, Phase, Processing
  <2> QED  BY <2>1 DEF Init, Lock!Init, PhaseOf
<1>2. Init => LockInv
  <2> SUFFICES ASSUME Init  PROVE LockInv  OBVIOUS
  <2>1. ShapeInv  BY ShapeInit
  <2>2. OwnersHold  BY RequestAssumption, Zenon DEF Init, OwnersHold, Owns, NoFin
  <2>3. Streamed  BY Zenon DEF Init, Streamed
  <2> QED  BY <2>1, <2>2, <2>3 DEF LockInv, ExclusionInv
<1>3. LockInv /\ [Next]_vars => LockInv'
  BY ExclusionStep, StreamedStep DEF LockInv, ExclusionInv
<1>4. LockInv /\ [Next]_vars => [Lock!Next]_(Lock!vars)  BY LockStep
<1> QED
  BY <1>1, <1>2, <1>3, <1>4, PTL DEF Spec, ImplementsConversationLock, Lock!Spec

-----------------------------------------------------------------------------
(* The run row and the otid mapping.                                         *)

(* A write with a real status removes no row. *)
LEMMA WriteKeepsRows ==
  ASSUME TypeOK, NEW q \in Req, NEW status, NEW stop, status # NoRun,
         WriteRun(q, status, stop), NEW r \in Req, run[r].status # NoRun
  PROVE  run'[r].status # NoRun
  BY DEF WriteRun, TypeOK

(* A run row, once inserted, is never removed. *)
LEMMA RowsStay ==
  ASSUME ShapeInv, [Next]_vars, NEW r \in Req, run[r].status # NoRun
  PROVE  run'[r].status # NoRun
<1>0. TypeOK  BY DEF ShapeInv, TypeInv
<1>1. ASSUME NEW q \in Req, Admission(q)  PROVE run'[r].status # NoRun
  <2>1. CASE CreateRun(q)  BY <1>0, <2>1 DEF CreateRun, TypeOK, NoRun
  <2>2. CASE HandlerWritesRun(q)
    <3>1. plan[q] # NoRun  BY <1>0, <2>2 DEF TypeOK, NoRun
    <3> QED  BY <1>0, <2>2, <3>1, WriteKeepsRows DEF HandlerWritesRun
  <2>3. CASE UNCHANGED run  BY <2>3
  <2> QED
    BY <1>1, <2>1, <2>2, <2>3
    DEF Admission, Arrive, AcquireLock, AcquireFails, ReadHolder, SecondChance,
        CreateRunFails, StoreMapping, SpawnStream, RefetchRun, HandlerRaises,
        HandlerReleases, SyncStepEnds, SyncReleases
<1>2. ASSUME NEW q \in Req, Processor(q)  PROVE run'[r].status # NoRun
  <2>1. CASE ProcMarksFailed(q)
    BY <1>0, <2>1, WriteKeepsRows DEF ProcMarksFailed, NoRun
  <2>2. CASE ProcWritesRun(q)
    <3>1. pstop[q] \in StopReason \cup {NoStop}  BY <1>0 DEF TypeOK
    <3>2. RunStatusOf(pstop[q]) # NoRun  BY <3>1 DEF RunStatusOf, NoRun
    <3> QED  BY <1>0, <2>2, <3>2, WriteKeepsRows DEF ProcWritesRun
  <2>3. CASE UNCHANGED run  BY <2>3
  <2> QED
    BY <1>2, <2>1, <2>2, <2>3
    DEF Processor, ProcStarts, StreamFinishes, StreamRaises, StreamCancelled,
        ProcInterrupted, ProcWriteFails, ProcStopsWriter, ProcStopFails, ProcReleases,
        ProcMarksComplete
<1>3. ASSUME NEW q \in Req, Response(q)  PROVE run'[r].status # NoRun
  <2>1. CASE FinWritesRun(q)
    <3>1. fin[q].status # NoRun  BY <2>1 DEF FinWritesRun, ShapeInv, AllShaped, Shape
    <3> QED  BY <1>0, <2>1, <3>1, WriteKeepsRows DEF FinWritesRun
  <2>2. CASE UNCHANGED run  BY <2>2
  <2> QED
    BY <1>3, <2>1, <2>2
    DEF Response, ResponseStarts, ResponseFinishes, ResponseFails, ResponseCancelled,
        FinReleases
<1>4. ASSUME NEW q \in Req, Cancellation(q) \/ SeesCancel(q)  PROVE run'[r].status # NoRun
  <2>1. CASE CancelWrites(q)
    BY <1>0, <2>1, WriteKeepsRows DEF CancelWrites, NoRun
  <2>2. CASE UNCHANGED run  BY <2>2
  <2> QED
    BY <1>4, <2>1, <2>2
    DEF Cancellation, CancelReads, CancelReleases, SeesCancel, AgentSeesCancel,
        WrapperSeesCancel
<1>5. ASSUME NEW k \in Key, LockExpires(k)  PROVE run'[r].status # NoRun
  BY <1>5 DEF LockExpires
<1>6. CASE UNCHANGED vars  BY <1>6 DEF vars
<1> QED  BY <1>1, <1>2, <1>3, <1>4, <1>5, <1>6 DEF Next

-----------------------------------------------------------------------------
(* What the mapping and the handlers that use it know.                      *)

MappedRun(t) ==
  otid[t] # NoReq => TokenOf[otid[t]] = t /\ run[otid[t]].status # NoRun

(* A handler about to store the mapping has inserted its run, and a         *)
(* recovered one has seen a mapping of its token.                           *)
Knows(r) ==
  /\ handler[r] = "map" => run[r].status # NoRun
  /\ handler[r] = "recovered" => otid[TokenOf[r]] # NoReq

RecoveryInv ==
  /\ ShapeInv
  /\ \A t \in Token : MappedRun(t)
  /\ \A r \in Req : Knows(r)

(* Steps outside the handlers leave the mapping alone. *)
LEMMA MappingKept ==
  ASSUME RecoveryInv, [Next]_vars, UNCHANGED <<otid, handler>>
  PROVE  (\A t \in Token : MappedRun(t)') /\ (\A r \in Req : Knows(r)')
<1>1. \A r \in Req : run[r].status # NoRun => run'[r].status # NoRun
  BY RowsStay DEF RecoveryInv
<1> QED
  BY <1>1 DEF RecoveryInv, MappedRun, Knows, ShapeInv, TypeInv, TypeOK

(* Admission stores a mapping only for a run that exists. *)
LEMMA RecoveryAdmission ==
  ASSUME RecoveryInv, NEW q \in Req, Admission(q), [Next]_vars
  PROVE  (\A t \in Token : MappedRun(t)') /\ (\A r \in Req : Knows(r)')
<1>1. \A r \in Req : run[r].status # NoRun => run'[r].status # NoRun
  BY RowsStay DEF RecoveryInv
<1> USE <1>1, RequestAssumption
    DEF RecoveryInv, MappedRun, Knows, ShapeInv, TypeInv, TypeOK, Goto, HandlerPoint
<1>2. CASE CreateRun(q)  BY <1>2 DEF CreateRun, NoRun
<1>3. CASE StoreMapping(q)  BY <1>3 DEF StoreMapping
<1>4. CASE Arrive(q)  BY <1>4 DEF Arrive
<1>5. CASE SecondChance(q)  BY <1>5 DEF SecondChance
<1>6. CASE AcquireLock(q)  BY <1>6 DEF AcquireLock
<1>7. CASE AcquireFails(q)  BY <1>7 DEF AcquireFails
<1>8. CASE ReadHolder(q)  BY <1>8 DEF ReadHolder
<1>9. CASE CreateRunFails(q)  BY <1>9 DEF CreateRunFails
<1>10. CASE SpawnStream(q)  BY <1>10 DEF SpawnStream
<1>11. CASE RefetchRun(q)  BY <1>11 DEF RefetchRun
<1>12. CASE HandlerRaises(q)  BY <1>12 DEF HandlerRaises
<1>13. CASE HandlerWritesRun(q)  BY <1>13 DEF HandlerWritesRun
<1>14. CASE HandlerReleases(q)  BY <1>14 DEF HandlerReleases
<1>15. CASE SyncStepEnds(q)  BY <1>15 DEF SyncStepEnds
<1>16. CASE SyncReleases(q)  BY <1>16 DEF SyncReleases
<1> QED
  BY <1>2, <1>3, <1>4, <1>5, <1>6, <1>7, <1>8, <1>9, <1>10, <1>11, <1>12, <1>13,
     <1>14, <1>15, <1>16 DEF Admission

(* Every step keeps what the mapping and the handlers know. *)
LEMMA RecoveryStep == RecoveryInv /\ [Next]_vars => RecoveryInv'
<1> SUFFICES ASSUME RecoveryInv, [Next]_vars  PROVE RecoveryInv'  OBVIOUS
<1>1. ShapeInv'  BY ShapeStep DEF RecoveryInv
<1>2. ASSUME NEW q \in Req, Admission(q)
      PROVE  (\A t \in Token : MappedRun(t)') /\ (\A r \in Req : Knows(r)')
  BY <1>2, RecoveryAdmission
<1>3. ASSUME NEW q \in Req, Processor(q)  PROVE UNCHANGED <<otid, handler>>
  BY <1>3
  DEF Processor, ProcStarts, StreamFinishes, StreamRaises, StreamCancelled,
      ProcInterrupted, ProcWriteFails, ProcMarksFailed, ProcStopsWriter, ProcStopFails,
      ProcReleases, ProcWritesRun, ProcMarksComplete, admission
<1>4. ASSUME NEW q \in Req, Response(q)  PROVE UNCHANGED <<otid, handler>>
  BY <1>4
  DEF Response, ResponseStarts, ResponseFinishes, ResponseFails, ResponseCancelled,
      FinWritesRun, FinReleases, admission
<1>5. ASSUME NEW q \in Req, Cancellation(q) \/ SeesCancel(q)
      PROVE  UNCHANGED <<otid, handler>>
  BY <1>5
  DEF Cancellation, CancelReads, CancelWrites, CancelReleases, SeesCancel,
      AgentSeesCancel, WrapperSeesCancel, admission
<1>6. ASSUME NEW k \in Key, LockExpires(k)  PROVE UNCHANGED <<otid, handler>>
  BY <1>6 DEF LockExpires, admission
<1>7. ASSUME UNCHANGED vars  PROVE UNCHANGED <<otid, handler>>  BY <1>7 DEF vars, admission
<1>8. (\A t \in Token : MappedRun(t)') /\ (\A r \in Req : Knows(r)')
  BY <1>2, <1>3, <1>4, <1>5, <1>6, <1>7, MappingKept DEF Next
<1> QED  BY <1>1, <1>8 DEF RecoveryInv

(* A retry that is answered by recovery is attached to a run that was       *)
(* created, and for the same messages, whatever other requests with its     *)
(* token do meanwhile.                                                      *)
THEOREM RecoveredRunExists == Spec => []RecoveryFindsRun
<1>1. Init => RecoveryInv
  BY ShapeInit, RequestAssumption DEF Init, RecoveryInv, MappedRun, Knows
<1>2. RecoveryInv /\ [Next]_vars => RecoveryInv'  BY RecoveryStep
<1>3. RecoveryInv => RecoveryFindsRun
  BY RequestAssumption
  DEF RecoveryInv, MappedRun, Knows, RecoveryFindsRun, ShapeInv, TypeInv, TypeOK
<1> QED  BY <1>1, <1>2, <1>3, PTL DEF Spec

-----------------------------------------------------------------------------
(* The recorded status and the recorded stop reason of a background run.    *)

Canonical(r) == run[r].status = RunStatusOf(run[r].stop)

HandlerWrote(r) ==
  handler[r] \in {"returned", "release", "failed"} /\ run[r].status = plan[r]

(* StatusFollowsStop, with what the processor and the stream finaliser will *)
(* record: a stop reason, and for the finaliser its canonical status.       *)
Records(r) ==
  /\ KindOf[r] = "background" /\ run[r].stop # NoStop => Canonical(r) \/ HandlerWrote(r)
  /\ proc[r] \in {"failing", "stop", "release", "update"} => pstop[r] # NoStop
  /\ KindOf[r] = "background" /\ fin[r].at = "write" =>
       fin[r].stop # NoStop /\ fin[r].status = RunStatusOf(fin[r].stop)

RecordInv == TypeInv /\ \A r \in Req : Records(r)

(* A write of a stop reason with its canonical status leaves the row        *)
(* canonical, and the other rows alone.                                     *)
LEMMA CanonicalWrite ==
  ASSUME TypeOK, NEW q \in Req, NEW status, NEW stop, stop # NoStop,
         status = RunStatusOf(stop), WriteRun(q, status, stop)
  PROVE  /\ run'[q].status = RunStatusOf(run'[q].stop)
         /\ \A r \in Req \ {q} : run'[r] = run[r]
<1>1. /\ run'[q] = [status |-> status, stop |-> stop]
      /\ \A r \in Req \ {q} : run'[r] = run[r]
  BY DEF WriteRun, TypeOK
<1> QED  BY <1>1

(* The handler's own write is the only one that is not canonical. *)
LEMMA RecordAdmission ==
  ASSUME RecordInv, NEW q \in Req, Admission(q), NEW r \in Req
  PROVE  Records(r)'
<1> USE DEF RecordInv, Records, Canonical, HandlerWrote, TypeInv, TypeOK, Goto, HandlerPoint
<1>1. CASE Arrive(q)  BY <1>1 DEF Arrive
<1>2. CASE AcquireLock(q)  BY <1>2 DEF AcquireLock
<1>3. CASE AcquireFails(q)  BY <1>3 DEF AcquireFails
<1>4. CASE ReadHolder(q)  BY <1>4 DEF ReadHolder
<1>5. CASE SecondChance(q)  BY <1>5 DEF SecondChance
<1>6. CASE CreateRun(q)  BY <1>6 DEF CreateRun
<1>7. CASE CreateRunFails(q)  BY <1>7 DEF CreateRunFails
<1>8. CASE StoreMapping(q)  BY <1>8 DEF StoreMapping
<1>9. CASE SpawnStream(q)  BY <1>9 DEF SpawnStream
<1>10. CASE RefetchRun(q)  BY <1>10 DEF RefetchRun
<1>11. CASE HandlerRaises(q)  BY <1>11 DEF HandlerRaises
<1>12. CASE HandlerWritesRun(q)
  BY <1>12 DEF HandlerWritesRun, WriteRun, Terminal
<1>13. CASE HandlerReleases(q)  BY <1>13 DEF HandlerReleases
<1>14. CASE SyncStepEnds(q)  BY <1>14 DEF SyncStepEnds
<1>15. CASE SyncReleases(q)  BY <1>15 DEF SyncReleases
<1> QED
  BY <1>1, <1>2, <1>3, <1>4, <1>5, <1>6, <1>7, <1>8, <1>9, <1>10, <1>11, <1>12,
     <1>13, <1>14, <1>15 DEF Admission

(* The processor records canonical statuses, and arms a canonical finaliser. *)
LEMMA RecordProcessor ==
  ASSUME RecordInv, NEW q \in Req, Processor(q), NEW r \in Req
  PROVE  Records(r)'
<1>0. TypeOK  BY DEF RecordInv, TypeInv
<1>1. CASE ProcMarksFailed(q)
  <2>1. "error" # NoStop /\ "failed" = RunStatusOf("error")  BY DEF NoStop, RunStatusOf
  <2>2. /\ Canonical(q)'
        /\ \A p \in Req \ {q} : run'[p] = run[p]
    BY <1>0, <1>1, <2>1, CanonicalWrite DEF ProcMarksFailed, Canonical
  <2> QED
    BY <1>0, <1>1, <2>2
    DEF ProcMarksFailed, RecordInv, Records, Canonical, HandlerWrote, admission, TypeOK
<1>2. CASE ProcWritesRun(q)
  <2>1. pstop[q] # NoStop  BY <1>2 DEF ProcWritesRun, RecordInv, Records
  <2>2. /\ Canonical(q)'
        /\ \A p \in Req \ {q} : run'[p] = run[p]
    BY <1>0, <1>2, <2>1, CanonicalWrite DEF ProcWritesRun, Canonical
  <2> QED
    BY <1>0, <1>2, <2>2
    DEF ProcWritesRun, RecordInv, Records, Canonical, HandlerWrote, admission, TypeOK
<1> USE DEF RecordInv, Records, Canonical, HandlerWrote, TypeInv, TypeOK, admission
<1> DEFINE Leaves == \E stop \in StopReason : Leave(q, "stop", stop) \/ Leave(q, "failing", stop)
<1>3. ASSUME Leaves, UNCHANGED <<run, admission>>, SkipFin(q)  PROVE Records(r)'
  BY <1>3 DEF Leave, SkipFin, StopReason, NoStop
<1>4. CASE StreamFinishes(q)
  BY <1>3, <1>4, StopsFromType DEF StreamFinishes
<1>5. CASE StreamCancelled(q)
  BY <1>3, <1>5, StopsFromType DEF StreamCancelled
<1>6. CASE ProcInterrupted(q)
  BY <1>3, <1>6, StopsFromType DEF ProcInterrupted
<1>7. CASE ProcWriteFails(q)
  BY <1>3, <1>7, StopsFromType DEF ProcWriteFails
<1>8. CASE StreamRaises(q)
  BY <1>8 DEF StreamRaises, Leave, ArmFin, RunStatusOf, NoStop
<1>9. CASE ProcStarts(q)  BY <1>9 DEF ProcStarts
<1>10. CASE ProcStopsWriter(q)  BY <1>10 DEF ProcStopsWriter
<1>11. CASE ProcStopFails(q)  BY <1>11 DEF ProcStopFails
<1>12. CASE ProcReleases(q)  BY <1>12 DEF ProcReleases
<1>13. CASE ProcMarksComplete(q)  BY <1>13 DEF ProcMarksComplete
<1> QED
  BY <1>1, <1>2, <1>4, <1>5, <1>6, <1>7, <1>8, <1>9, <1>10, <1>11, <1>12, <1>13
  DEF Processor

(* The stream finaliser of a background run writes what it was armed with. *)
LEMMA RecordResponse ==
  ASSUME RecordInv, NEW q \in Req, Response(q), NEW r \in Req
  PROVE  Records(r)'
<1>0. TypeOK  BY DEF RecordInv, TypeInv
<1> USE DEF RecordInv, Records, Canonical, HandlerWrote, TypeOK, admission
<1>1. CASE ResponseStarts(q)  BY <1>1 DEF ResponseStarts
<1>2. CASE ResponseFinishes(q)
  <2>1. KindOf[q] # "background"  BY <1>2 DEF ResponseFinishes, Responding
  <2>2. \A p \in Req \ {q} : fin'[p] = fin[p]
    BY <1>0, <1>2 DEF ResponseFinishes, ArmFin
  <2> QED  BY <1>0, <1>2, <2>1, <2>2 DEF ResponseFinishes
<1>3. CASE ResponseFails(q)
  <2>1. KindOf[q] # "background"  BY <1>3 DEF ResponseFails, Responding
  <2>2. \A p \in Req \ {q} : fin'[p] = fin[p]
    BY <1>0, <1>3 DEF ResponseFails, ArmFin
  <2> QED  BY <1>0, <1>3, <2>1, <2>2 DEF ResponseFails
<1>4. CASE ResponseCancelled(q)
  BY <1>0, <1>4 DEF ResponseCancelled, SkipFin
<1>5. CASE FinWritesRun(q)
  <2>1. /\ \A p \in Req \ {q} : run'[p] = run[p]
        /\ fin'[r].at = "write" => r # q /\ fin'[r] = fin[r]
    BY <1>0, <1>5 DEF FinWritesRun, WriteRun
  <2>2. KindOf[q] = "background" => Canonical(q)'
    BY <1>0, <1>5, CanonicalWrite DEF FinWritesRun
  <2> QED  BY <1>0, <1>5, <2>1, <2>2 DEF FinWritesRun
<1>6. CASE FinReleases(q)  BY <1>0, <1>6 DEF FinReleases
<1> QED  BY <1>1, <1>2, <1>3, <1>4, <1>5, <1>6 DEF Response

(* A cancellation records the stop reason with its status. *)
LEMMA RecordCancellation ==
  ASSUME RecordInv, NEW q \in Req, Cancellation(q) \/ SeesCancel(q), NEW r \in Req
  PROVE  Records(r)'
<1>0. TypeOK  BY DEF RecordInv, TypeInv
<1> USE DEF RecordInv, Records, Canonical, HandlerWrote, TypeOK, admission
<1>1. CASE CancelReads(q)  BY <1>1 DEF CancelReads
<1>2. CASE CancelWrites(q)
  <2>1. "cancelled" # NoStop /\ "cancelled" = RunStatusOf("cancelled")
    BY DEF NoStop, RunStatusOf
  <2>2. /\ Canonical(q)'
        /\ \A p \in Req \ {q} : run'[p] = run[p]
    BY <1>0, <1>2, <2>1, CanonicalWrite DEF CancelWrites
  <2> QED  BY <1>2, <2>2 DEF CancelWrites
<1>3. CASE CancelReleases(q)  BY <1>3 DEF CancelReleases
<1>4. CASE AgentSeesCancel(q)  BY <1>4 DEF AgentSeesCancel
<1>5. CASE WrapperSeesCancel(q)  BY <1>5 DEF WrapperSeesCancel
<1> QED
  BY <1>1, <1>2, <1>3, <1>4, <1>5 DEF Cancellation, SeesCancel

(* Every step keeps the records. *)
LEMMA RecordStep == RecordInv /\ [Next]_vars => RecordInv'
<1> SUFFICES ASSUME RecordInv, [Next]_vars  PROVE RecordInv'  OBVIOUS
<1>1. TypeInv'  BY TypeStep DEF RecordInv
<1>2. ASSUME NEW r \in Req  PROVE Records(r)'
  <2>1. ASSUME NEW q \in Req, Admission(q)  PROVE Records(r)'  BY <2>1, RecordAdmission
  <2>2. ASSUME NEW q \in Req, Processor(q)  PROVE Records(r)'  BY <2>2, RecordProcessor
  <2>3. ASSUME NEW q \in Req, Response(q)  PROVE Records(r)'  BY <2>3, RecordResponse
  <2>4. ASSUME NEW q \in Req, Cancellation(q) \/ SeesCancel(q)  PROVE Records(r)'
    BY <2>4, RecordCancellation
  <2>5. ASSUME NEW k \in Key, LockExpires(k)  PROVE Records(r)'
    BY <2>5 DEF LockExpires, RecordInv, Records, Canonical, HandlerWrote, admission
  <2>6. CASE UNCHANGED vars
    BY <2>6 DEF vars, RecordInv, Records, Canonical, HandlerWrote, admission
  <2> QED  BY <2>1, <2>2, <2>3, <2>4, <2>5, <2>6 DEF Next
<1> QED  BY <1>1, <1>2 DEF RecordInv

(* The recorded status of a background run is the canonical status of its   *)
(* recorded stop reason, whichever of the processor, the stream finaliser   *)
(* and a cancellation wrote last; only the request handler's own late write *)
(* can make them disagree.                                                  *)
THEOREM StatusIsCanonical == Spec => []StatusFollowsStop
<1>1. Init => RecordInv
  BY TypeInit DEF Init, RecordInv, Records, NoFin
<1>2. RecordInv /\ [Next]_vars => RecordInv'  BY RecordStep
<1>3. RecordInv => StatusFollowsStop
  BY DEF RecordInv, Records, Canonical, HandlerWrote, StatusFollowsStop
<1> QED  BY <1>1, <1>2, <1>3, PTL DEF Spec
=============================================================================
